---- MODULE Spec2Model ----
(***************************************************************************)
(* Course-to-professor assignment engine (projeto_aplicado/modelos).       *)
(*                                                                         *)
(* The model follows the Python sources:                                   *)
(*   otimizador_base.py    Otimizador: reduction of the problem by the     *)
(*                         fixed pre-assignments, preference filling,      *)
(*                         conflict normalisation, recomposition           *)
(*   otimizador_aco.py     OtimizadorACO: ant construction, pheromone      *)
(*                         update, generation loop                         *)
(*   otimizador_ag_fast.py OtimizadorAGFast: seeding, fitness, selection,  *)
(*                         crossover, repair mutation, generation loop     *)
(*   otimizador_ag.py      OtimizadorAG: the list-based genetic algorithm  *)
(*   otimizador_aco_fast.py OtimizadorACOFast: the float32 ant colony      *)
(*   v2/tarefas.py         jobs: worker thread, progress callback, state   *)
(*                         read by /progresso                              *)
(*                                                                         *)
(* Identifiers (id_docente, id_disciplina) are the integers 1..NumProfs    *)
(* and 1..NumDiscs in table order. Array positions are 1-based; the        *)
(* "nobody" marker of the code is kept as -1. Python's None is the empty   *)
(* tuple and a present value v is the one-element tuple <<v>>. Floating    *)
(* point values (pheromone, deposit, heuristic) are exact fractions        *)
(* <<numerator, denominator>> in lowest terms.                             *)
(***************************************************************************)
EXTENDS Integers, Sequences, FiniteSets, TLC

VARIABLES
    config,                  \* self.config (read-only input)
    dados_brutos,            \* self.dados_brutos (read-only input tables)
    pc,                      \* position of the program
    prep,                    \* locals of _preparar_dados while the fixed list is processed
    solucao_parcial_fixa,    \* self.solucao_parcial_fixa
    preferencias_completas,  \* self.preferencias_completas
    dados_preparados,        \* self.dados_preparados
    arr_feromonio,           \* self.arr_feromonio
    melhor_qualidade_global, \* self.melhor_qualidade_global
    melhor_solucao_global,   \* self.melhor_solucao_global
    metricas_iteracao,       \* self.metricas_iteracao
    geracao,                 \* loop variable of _resolver_nucleo (generations completed)
    n_formiga,               \* ants already run in the current generation
    solucoes_da_geracao,     \* local list of _resolver_nucleo
    formiga,                 \* locals of _construir_solucao_formiga_numpy
    deposito,                \* local of _atualizar_feromonio_numpy (last deposit)
    populacao,               \* self.populacao (OtimizadorAGFast)
    melhor_fitness_global,   \* self.melhor_fitness_global (None is -inf)
    estagnacao,              \* stagnation_count and prev_best of _resolver_nucleo
    nova_pop,                \* local list of _resolver_nucleo
    semente,                 \* locals of _gerar_populacao_inicial
    filhos,                  \* offspring of the last crossover not yet mutated
    mut,                     \* locals of _mutacao
    chamadas,                \* calls of callback_iteracao: the record passed, whether it raised
    resultado,               \* value returned by resolver
    np_random,               \* state of the process-wide generator numpy.random
    instancias,              \* solver instances of the process: position, seed, draws received
    ESTADOS,                 \* tarefas.ESTADOS
    thread,                  \* position and locals of _thread_job
    chegadas,                \* status each call of _callback_iteracao found
    leitor                   \* a reader of /progresso: position and the fields it has read

varsEntrada == <<config, dados_brutos>>

varsProcesso == <<np_random, instancias, ESTADOS, thread, chegadas, leitor>>

varsPrep == <<prep, solucao_parcial_fixa, preferencias_completas, dados_preparados>>

varsACO == <<arr_feromonio, n_formiga, solucoes_da_geracao, formiga, deposito>>

varsBusca == <<melhor_qualidade_global, melhor_solucao_global, metricas_iteracao, geracao>>

varsAG == <<populacao, melhor_fitness_global, estagnacao, nova_pop, semente, filhos, mut>>

vars == <<varsEntrada, varsProcesso, pc, varsPrep, varsACO, varsAG, varsBusca, chamadas,
          resultado>>

-----------------------------------------------------------------------------
(* Bounds of the model *)

NumProfs == 2
NumDiscs == 3
MaxCap == 2
MaxFixas == 2
MaxFormigas == 2
MaxGeracoes == 2
MaxPopulacao == 2
MaxRespostas == 2

\* generations and stagnation limits of the runs of OtimizadorACOFast
MaxGeracoesFast == 3

MaxEstagnacao == 2

\* marked cells of a raw conflict table
MaxMarcas == 2

Profs == 1..NumProfs
Discs == 1..NumDiscs

-----------------------------------------------------------------------------
(* Generic helpers *)

None == <<>>

Some(v) == <<v>>

RECURSIVE GCD(_, _)
GCD(a, b) == IF b = 0 THEN a ELSE GCD(b, a % b)

Abs(x) == IF x < 0 THEN -x ELSE x

\* a fraction n/d with d > 0, in lowest terms
Frac(n, d) ==
    LET g == GCD(Abs(n), d)
    IN  IF g = 0 THEN <<0, 1>> ELSE <<n \div g, d \div g>>

FAdd(x, y) == Frac(x[1] * y[2] + y[1] * x[2], x[2] * y[2])

FMul(x, y) == Frac(x[1] * y[1], x[2] * y[2])

FSub(x, y) == Frac(x[1] * y[2] - y[1] * x[2], x[2] * y[2])

FInt(n) == <<n, 1>>

FPos(x) == x[1] > 0

RECURSIVE FPow(_, _)
FPow(x, n) == IF n = 0 THEN <<1, 1>> ELSE FMul(x, FPow(x, n - 1))

RECURSIVE SumSeq(_)
SumSeq(s) == IF s = <<>> THEN 0 ELSE Head(s) + SumSeq(Tail(s))

RECURSIVE MaxSeq(_)
MaxSeq(s) ==
    IF Len(s) = 1 THEN s[1]
    ELSE LET m == MaxSeq(Tail(s)) IN IF s[1] >= m THEN s[1] ELSE m

\* the increasing sequence of the elements of a finite set of integers
RECURSIVE SetToSeq(_)
SetToSeq(S) ==
    IF S = {} THEN <<>>
    ELSE LET m == CHOOSE x \in S : \A y \in S : x <= y
         IN  <<m>> \o SetToSeq(S \ {m})

Range(s) == {s[i] : i \in DOMAIN s}

Permutacoes(n) == {s \in [1..n -> 1..n] : \A i, j \in 1..n : i # j => s[i] # s[j]}

SeqsAte(S, n) == UNION {[1..k -> S] : k \in 0..n}

\* position of the identifier x in the list of identifiers s
IndexOf(s, x) == CHOOSE i \in DOMAIN s : s[i] = x

-----------------------------------------------------------------------------
(* Otimizador (otimizador_base.py): preparation of the data *)

\* ch_disciplinas: every course costs one unit of capacity
ChDisciplinas == [d \in Discs |-> 1]

\* the raw conflict table is the set of ordered pairs <<a, b>> whose cell is
\* greater than zero; reindexed on the course list and forced to 0/1
BinarizarConflitos(raw) ==
    [a \in Discs |-> [b \in Discs |-> IF <<a, b>> \in raw THEN 1 ELSE 0]]

\* the table with its diagonal left as it came
ZerarDiagonalOmitido(m) == m

\* df.values[np.diag_indices_from(df)] = 0
ZerarDiagonal(m) ==
    [a \in Discs |-> [b \in Discs |-> IF a = b THEN 0 ELSE m[a][b]]]

\* the table left as it is, without the transposed entries
SimetrizarOmitido(m) == m

Simetrizar(m) ==
    [a \in Discs |-> [b \in Discs |-> IF m[a][b] + m[b][a] > 0 THEN 1 ELSE 0]]

NormalizarConflitos(raw) == Simetrizar(ZerarDiagonal(BinarizarConflitos(raw)))

\* the survey is a set of rows <<id_docente, id_disciplina, preferencia>>;
\* the pivoted cell is None (NaN) where no row exists
PivotPreferencias(rows, p, d) ==
    IF \E r \in rows : r[1] = p /\ r[2] = d
    THEN Some((CHOOSE r \in rows : r[1] = p /\ r[2] = d)[3])
    ELSE None

ValorPreenchimento(tipos, d, pref_servico, pref_demais) ==
    IF tipos[d] = "SERVICO" THEN pref_servico ELSE pref_demais

PrepararPreferencias(tipos, rows, pref_servico, pref_demais) ==
    [p \in Profs |-> [d \in Discs |->
        LET celula == PivotPreferencias(rows, p, d)
        IN  IF celula = None
            THEN ValorPreenchimento(tipos, d, pref_servico, pref_demais)
            ELSE celula[1]]]

\* the capacity test with one unit of tolerance
ExcedeLimiteFrouxo(carga_futura, limite) == carga_futura > limite + 1

\* the capacity test applied to one fixed entry
ExcedeLimite(carga_futura, limite) == carga_futura > limite

PrepInicial ==
    [i |-> 1,
     cargas_atuais |-> [p \in Profs |-> 0],
     disciplinas_fixadas |-> {},
     alocacoes_resolvidas |-> <<>>]

\* Etapa 2: what is left to allocate and who can still receive a course
DisciplinasAAlocar(fixadas) == SetToSeq({d \in Discs : d \notin fixadas})

\* the filter that also keeps a professor with no capacity left
ProfessoresComOuSemVaga(cargas, ch_max) ==
    SetToSeq({p \in Profs : cargas[p] <= ch_max[p]})

ProfessoresAConsiderar(cargas, ch_max) ==
    SetToSeq({p \in Profs : cargas[p] < ch_max[p]})

\* the reduced problem with the original capacities left undiscounted
DadosReduzidosSemDesconto(cargas, fixadas, ch_max, prefs, conflitos) ==
    LET profs == ProfessoresAConsiderar(cargas, ch_max)
        discs == DisciplinasAAlocar(fixadas)
    IN  [professores |-> profs,
         disciplinas |-> discs,
         ch_max |-> [p \in Range(profs) |-> ch_max[p]],
         ch_disciplinas |-> [d \in Range(discs) |-> ChDisciplinas[d]],
         preferencias |-> [p \in Range(profs) |-> [d \in Range(discs) |-> prefs[p][d]]],
         matriz_conflitos |->
            [a \in Range(discs) |-> [b \in Range(discs) |-> conflitos[a][b]]]]

\* Etapa 3: the reduced problem seen by the solvers
DadosReduzidos(cargas, fixadas, ch_max, prefs, conflitos) ==
    LET profs == ProfessoresAConsiderar(cargas, ch_max)
        discs == DisciplinasAAlocar(fixadas)
    IN  [professores |-> profs,
         disciplinas |-> discs,
         ch_max |-> [p \in Range(profs) |-> ch_max[p] - cargas[p]],
         ch_disciplinas |-> [d \in Range(discs) |-> ChDisciplinas[d]],
         preferencias |-> [p \in Range(profs) |-> [d \in Range(discs) |-> prefs[p][d]]],
         matriz_conflitos |->
            [a \in Range(discs) |-> [b \in Range(discs) |-> conflitos[a][b]]]]

\* one iteration of the loop over ALOCACOES_FIXAS: the entry is rejected with
\* ValueError (the constructor fails) or accepted
ValidarAlocacaoFixa ==
    /\ pc = "preparar_dados"
    /\ prep.i <= Len(config.ALOCACOES_FIXAS)
    /\ LET alocacao == config.ALOCACOES_FIXAS[prep.i]
           prof == alocacao.professor
           disc == alocacao.disciplina
           carga_futura == prep.cargas_atuais[prof] + ChDisciplinas[disc]
       IN  IF ExcedeLimite(carga_futura, dados_brutos.max_disciplinas[prof])
           THEN /\ pc' = "ValueError"
                /\ UNCHANGED prep
           ELSE /\ prep' = [i |-> prep.i + 1,
                            cargas_atuais |->
                                [prep.cargas_atuais EXCEPT ![prof] = carga_futura],
                            disciplinas_fixadas |-> prep.disciplinas_fixadas \cup {disc},
                            alocacoes_resolvidas |->
                                Append(prep.alocacoes_resolvidas,
                                       [id_disciplina |-> disc, id_docente |-> prof])]
                /\ UNCHANGED pc
    /\ UNCHANGED <<varsEntrada, varsProcesso, chamadas, varsAG, solucao_parcial_fixa, preferencias_completas,
                   dados_preparados, varsACO, varsBusca, resultado>>

\* the rest of _preparar_dados once every fixed entry was accepted
ReduzirProblema ==
    /\ pc = "preparar_dados"
    /\ prep.i > Len(config.ALOCACOES_FIXAS)
    /\ LET prefs == PrepararPreferencias(dados_brutos.tipo_disciplina,
                                         dados_brutos.preferencias,
                                         config.PREFERENCIA_SERVICO,
                                         config.PREFERENCIA_DEMAIS)
           conflitos == NormalizarConflitos(dados_brutos.conflitos)
       IN  /\ solucao_parcial_fixa' = Some(prep.alocacoes_resolvidas)
           /\ preferencias_completas' = Some(prefs)
           /\ dados_preparados' =
                Some(DadosReduzidos(prep.cargas_atuais, prep.disciplinas_fixadas,
                                    dados_brutos.max_disciplinas, prefs, conflitos))
    /\ pc' = "construido"
    /\ UNCHANGED <<varsEntrada, varsProcesso, chamadas, varsAG, prep, varsACO, varsBusca, resultado>>

-----------------------------------------------------------------------------
(* OtimizadorACO (otimizador_aco.py) *)

\* defaults of ACO_PARAMS
Alfa == 1

Beta == 2

\* the offset added to the preference to form the heuristic: 0.1
Offset == <<1, 10>>

DP == dados_preparados[1]

\* _inicializar_parametros: sizes, index maps and arrays of the reduced problem
NumProfsRed == Len(DP.professores)

NumDiscsRed == Len(DP.disciplinas)

IdxToProf(i) == DP.professores[i]

IdxToDisc(j) == DP.disciplinas[j]

FeromonioInicial ==
    [i \in 1..NumProfsRed |-> [j \in 1..NumDiscsRed |-> <<1, 1>>]]

ArrHeuristica(i, j) ==
    FAdd(FInt(DP.preferencias[IdxToProf(i)][IdxToDisc(j)]), Offset)

ArrChProf(i) == DP.ch_max[IdxToProf(i)]

ArrChDisc(j) == DP.ch_disciplinas[IdxToDisc(j)]

ArrConflitos(a, b) == DP.matriz_conflitos[IdxToDisc(a)][IdxToDisc(b)]

\* locals of one construction; retorno tells whether the call is running,
\* returned (None, -1) or returned (solucao_indices, qualidade_solucao)
FormigaOciosa ==
    [ordem_disciplinas |-> <<>>, k |-> 0, cargas_atuais |-> <<>>,
     solucao_indices |-> <<>>, qualidade_solucao |-> 0,
     alocacao_por_disciplina |-> <<>>, retorno |-> "nenhum"]

\* the capacity filter with the cost of the course left out
MaskCapacidadeSemCusto(cargas, custo_disc) ==
    {p \in 1..NumProfsRed : cargas[p] <= ArrChProf(p)}

\* Passo 1.A: professors whose load still takes the course
MaskCapacidade(cargas, custo_disc) ==
    {p \in 1..NumProfsRed : cargas[p] + custo_disc <= ArrChProf(p)}

\* Passo 1.B: professors holding a course that conflicts with disc_idx
ProfsBloqueados(alocacao, disc_idx) ==
    {alocacao[j] : j \in {c \in 1..NumDiscsRed : ArrConflitos(disc_idx, c) = 1}} \ {-1}

CandidatosIndices(cargas, alocacao, disc_idx) ==
    MaskCapacidade(cargas, ArrChDisc(disc_idx)) \ ProfsBloqueados(alocacao, disc_idx)

\* Passo 2: attractiveness of a candidate and the professors the draw can return
Atratividade(fer, p, disc_idx) ==
    FMul(FPow(fer[p][disc_idx], Alfa), FPow(ArrHeuristica(p, disc_idx), Beta))

Sorteaveis(fer, candidatos, disc_idx) ==
    IF \A c \in candidatos : ~FPos(Atratividade(fer, c, disc_idx))
    THEN candidatos
    ELSE {c \in candidatos : FPos(Atratividade(fer, c, disc_idx))}

\* the clean preference recovered from the heuristic
PreferenciaLimpa(p, disc_idx) == FSub(ArrHeuristica(p, disc_idx), Offset)[1]

\* Passo 3: local update after professor prof_idx was drawn for disc_idx
AtualizacaoLocal(f, prof_idx, disc_idx) ==
    [f EXCEPT
        !.solucao_indices = Append(@, <<prof_idx, disc_idx>>),
        !.cargas_atuais[prof_idx] = @ + ArrChDisc(disc_idx),
        !.alocacao_por_disciplina[disc_idx] = prof_idx,
        !.qualidade_solucao = @ + PreferenciaLimpa(prof_idx, disc_idx),
        !.k = @ + 1,
        !.retorno = IF f.k = NumDiscsRed THEN "viavel" ELSE "construindo"]

\* resolver -> _resolver_nucleo up to the head of the generation loop
IniciarResolucao ==
    /\ pc = "construido"
    /\ config.solver = "ACO"
    /\ metricas_iteracao' = <<>>
    /\ melhor_qualidade_global' = -1
    /\ melhor_solucao_global' = None
    /\ arr_feromonio' = FeromonioInicial
    /\ geracao' = 0
    /\ n_formiga' = 0
    /\ solucoes_da_geracao' = <<>>
    /\ pc' = IF config.n_geracoes = 0 THEN "formatar" ELSE "formigas"
    /\ UNCHANGED <<varsEntrada, varsProcesso, chamadas, varsAG, varsPrep, formiga, deposito, resultado>>

\* call of _construir_solucao_formiga_numpy: initial state and visiting order
IniciarFormiga ==
    /\ pc = "formigas"
    /\ n_formiga < config.n_formigas
    /\ \E ordem \in Permutacoes(NumDiscsRed) :
        formiga' = [ordem_disciplinas |-> ordem,
                    k |-> 1,
                    cargas_atuais |-> [p \in 1..NumProfsRed |-> 0],
                    solucao_indices |-> <<>>,
                    qualidade_solucao |-> 0,
                    alocacao_por_disciplina |-> [d \in 1..NumDiscsRed |-> -1],
                    retorno |-> IF NumDiscsRed = 0 THEN "viavel" ELSE "construindo"]
    /\ pc' = IF NumDiscsRed = 0 THEN "retornou" ELSE "construindo"
    /\ UNCHANGED <<varsEntrada, varsProcesso, chamadas, varsAG, varsPrep, arr_feromonio, n_formiga, solucoes_da_geracao,
                   deposito, varsBusca, resultado>>

\* one iteration of the loop over ordem_disciplinas
PassoFormiga ==
    /\ pc = "construindo"
    /\ LET disc_idx == formiga.ordem_disciplinas[formiga.k]
           candidatos == CandidatosIndices(formiga.cargas_atuais,
                                           formiga.alocacao_por_disciplina, disc_idx)
       IN  IF candidatos = {}
           THEN /\ formiga' = [formiga EXCEPT !.retorno = "inviavel"]
                /\ pc' = "retornou"
           ELSE \E prof_idx \in Sorteaveis(arr_feromonio, candidatos, disc_idx) :
                /\ formiga' = AtualizacaoLocal(formiga, prof_idx, disc_idx)
                /\ pc' = IF formiga.k = NumDiscsRed THEN "retornou" ELSE "construindo"
    /\ UNCHANGED <<varsEntrada, varsProcesso, chamadas, varsAG, varsPrep, arr_feromonio, n_formiga, solucoes_da_geracao,
                   deposito, varsBusca, resultado>>

\* the test that also accepts a tie with the all-time best
MelhoraOuEmpata(qualidade, melhor) == qualidade >= melhor

\* strict improvement test of the all-time best
Melhora(qualidade, melhor) == qualidade > melhor

\* the caller's handling of what the construction returned
RegistrarFormiga ==
    /\ pc = "retornou"
    /\ IF formiga.retorno = "viavel"
       THEN /\ solucoes_da_geracao' =
                  Append(solucoes_da_geracao,
                         <<formiga.solucao_indices, formiga.qualidade_solucao>>)
            /\ IF Melhora(formiga.qualidade_solucao, melhor_qualidade_global)
               THEN /\ melhor_qualidade_global' = formiga.qualidade_solucao
                    /\ melhor_solucao_global' = Some(formiga.solucao_indices)
               ELSE UNCHANGED <<melhor_qualidade_global, melhor_solucao_global>>
       ELSE UNCHANGED <<solucoes_da_geracao, melhor_qualidade_global,
                        melhor_solucao_global>>
    /\ n_formiga' = n_formiga + 1
    /\ formiga' = FormigaOciosa
    /\ pc' = "formigas"
    /\ UNCHANGED <<varsEntrada, varsProcesso, chamadas, varsAG, varsPrep, arr_feromonio, deposito, metricas_iteracao,
                   geracao, resultado>>

\* _atualizar_feromonio_numpy, 1: global evaporation
Evaporar(fer, taxa) ==
    [i \in DOMAIN fer |-> [j \in DOMAIN fer[i] |->
        FMul(fer[i][j], FSub(<<1, 1>>, taxa))]]

\* _atualizar_feromonio_numpy, 2: max(solucoes_geracao, key=qualidade) is the
\* first tuple of highest quality
MelhorSolucaoTupla(solucoes) ==
    LET i == CHOOSE i \in DOMAIN solucoes :
                /\ \A j \in DOMAIN solucoes : solucoes[j][2] <= solucoes[i][2]
                /\ \A j \in 1..(i - 1) : solucoes[j][2] < solucoes[i][2]
    IN  solucoes[i]

\* the deposit laid on the all-time best path
CaminhoDoDepositoGlobal(solucoes, melhor_global) == melhor_global[1]

\* the path that receives the deposit
CaminhoDoDeposito(solucoes, melhor_global) == MelhorSolucaoTupla(solucoes)[1]

\* the deposit of a constant amount
CalcularDepositoFixo(melhor_global, melhor_qualidade) == <<1, 1>>

\* _atualizar_feromonio_numpy, 3: amount of the deposit
CalcularDeposito(melhor_global, melhor_qualidade) ==
    IF melhor_global > 0
    THEN Frac(1, 1 + (melhor_global - melhor_qualidade))
    ELSE <<1, 1>>

Depositar(fer, caminho, valor) ==
    [i \in DOMAIN fer |-> [j \in DOMAIN fer[i] |->
        IF <<i, j>> \in Range(caminho) THEN FAdd(fer[i][j], valor) ELSE fer[i][j]]]

\* the pheromone matrix left by _atualizar_feromonio_numpy when no exception
\* is raised
AtualizarFeromonio(fer, solucoes, melhor_global, taxa) ==
    IF solucoes = <<>>
    THEN fer
    ELSE Depositar(Evaporar(fer, taxa),
                   CaminhoDoDeposito(solucoes, melhor_solucao_global),
                   CalcularDeposito(melhor_global, MelhorSolucaoTupla(solucoes)[2]))

Qualidades(solucoes) == [i \in DOMAIN solucoes |-> solucoes[i][2]]

\* the call of callback_iteracao at the end of a generation, when one was
\* given to resolver: what the callback does is its own business, it returns
\* or it raises
ResultadosCallback == IF config.callback_iteracao THEN BOOLEAN ELSE {FALSE}

ChamarCallback(metrica, levantou) ==
    IF config.callback_iteracao
    THEN Append(chamadas, [metrica |-> metrica, levantou |-> levantou])
    ELSE chamadas

\* the exception of the callback leaving the solver
AposCallbackSemTry(levantou, destino) == IF levantou THEN "excecao" ELSE destino

\* try: callback_iteracao(metrica) / except: pass -- the loop goes on
AposCallback(levantou, destino) == destino

\* the metrics record of a generation
Metrica(g, solucoes, melhor_global) ==
    [geracao |-> g + 1,
     melhor_geracao |->
        IF solucoes = <<>> THEN None ELSE Some(MaxSeq(Qualidades(solucoes))),
     melhor_global |-> melhor_global,
     media_geracao |->
        IF solucoes = <<>> THEN None
        ELSE Some(Frac(SumSeq(Qualidades(solucoes)), Len(solucoes)))]

\* end of a generation: pheromone update, metrics, time limit. The unpacking
\* zip(*melhor_caminho_indices) of an empty path raises ValueError after the
\* evaporation. The time limit is decided by the clock: either outcome.
\* levantou tells whether the callback, if called, raised.
FimGeracaoCom(levantou) ==
    /\ pc = "formigas"
    /\ n_formiga = config.n_formigas
    /\ IF solucoes_da_geracao # <<>>
          /\ CaminhoDoDeposito(solucoes_da_geracao, melhor_solucao_global) = <<>>
       THEN /\ arr_feromonio' = Evaporar(arr_feromonio, config.taxa_evaporacao)
            /\ deposito' = Some(CalcularDeposito(melhor_qualidade_global,
                                    MelhorSolucaoTupla(solucoes_da_geracao)[2]))
            /\ pc' = "excecao"
            /\ UNCHANGED <<n_formiga, solucoes_da_geracao, metricas_iteracao, geracao>>
       ELSE /\ arr_feromonio' = AtualizarFeromonio(arr_feromonio, solucoes_da_geracao,
                                    melhor_qualidade_global, config.taxa_evaporacao)
            /\ deposito' =
                 IF solucoes_da_geracao = <<>> THEN deposito
                 ELSE Some(CalcularDeposito(melhor_qualidade_global,
                                MelhorSolucaoTupla(solucoes_da_geracao)[2]))
            /\ metricas_iteracao' =
                 Append(metricas_iteracao,
                        Metrica(geracao, solucoes_da_geracao, melhor_qualidade_global))
            /\ geracao' = geracao + 1
            /\ n_formiga' = 0
            /\ solucoes_da_geracao' = <<>>
            /\ \E tempo_esgotado \in BOOLEAN :
                 pc' = AposCallback(levantou,
                          IF geracao + 1 = config.n_geracoes \/ tempo_esgotado
                          THEN "formatar" ELSE "formigas")
    /\ UNCHANGED <<varsEntrada, varsProcesso, varsAG, varsPrep, formiga, melhor_qualidade_global,
                   melhor_solucao_global, resultado>>

\* the callback is called with the record just appended
FimGeracao ==
    \E levantou \in ResultadosCallback :
        /\ FimGeracaoCom(levantou)
        /\ chamadas' =
             IF Len(metricas_iteracao') > Len(metricas_iteracao)
             THEN ChamarCallback(metricas_iteracao'[Len(metricas_iteracao')], levantou)
             ELSE chamadas

\* _formatar_solucao_final: the rows of the best path with original identifiers
AlocacaoParcial(caminho) ==
    [k \in DOMAIN caminho |->
        [id_disciplina |-> IdxToDisc(caminho[k][2]),
         id_docente |-> IdxToProf(caminho[k][1]),
         preferencia |-> DP.preferencias[IdxToProf(caminho[k][1])][IdxToDisc(caminho[k][2])]]]

\* _recompor_solucao: the fixed rows, annotated, followed by the solver's rows
FixoEnriquecido ==
    [k \in DOMAIN solucao_parcial_fixa[1] |->
        [id_disciplina |-> solucao_parcial_fixa[1][k].id_disciplina,
         id_docente |-> solucao_parcial_fixa[1][k].id_docente,
         preferencia |-> preferencias_completas[1][solucao_parcial_fixa[1][k].id_docente]
                                                  [solucao_parcial_fixa[1][k].id_disciplina]]]

RecomporSolucao(df_parcial) ==
    IF df_parcial = <<>> THEN FixoEnriquecido ELSE FixoEnriquecido \o df_parcial

\* the end of the run that hands back an assignment even without a best path
FinalizarSemTeste ==
    /\ pc = "formatar"
    /\ resultado' =
         Some([alocacao_final |->
                   RecomporSolucao(IF melhor_solucao_global = None THEN <<>>
                                   ELSE AlocacaoParcial(melhor_solucao_global[1])),
               valor_objetivo |-> melhor_qualidade_global,
               geracoes_executadas |-> Len(metricas_iteracao)])
    /\ pc' = "fim"
    /\ UNCHANGED <<varsEntrada, varsProcesso, chamadas, varsAG, varsPrep, varsACO, varsBusca>>

\* after the loop: _formatar_solucao_final, then resolver's recomposition
Finalizar ==
    /\ pc = "formatar"
    /\ resultado' =
         IF melhor_solucao_global = None
         THEN None
         ELSE Some([alocacao_final |->
                        RecomporSolucao(AlocacaoParcial(melhor_solucao_global[1])),
                    valor_objetivo |-> melhor_qualidade_global,
                    geracoes_executadas |-> Len(metricas_iteracao)])
    /\ pc' = "fim"
    /\ UNCHANGED <<varsEntrada, varsProcesso, chamadas, varsAG, varsPrep, varsACO, varsBusca>>

-----------------------------------------------------------------------------
(* OtimizadorAGFast (otimizador_ag_fast.py) *)

\* constant structures of the reduced problem built by __init__
TodosProfs == 1..NumProfsRed

TodasDiscs == 1..NumDiscsRed

PrefMatrix(p, d) == DP.preferencias[IdxToProf(p)][IdxToDisc(d)]

ChDisciplina(d) == DP.ch_disciplinas[IdxToDisc(d)]

ChMax(p) == DP.ch_max[IdxToProf(p)]

Conflicts(a, b) == DP.matriz_conflitos[IdxToDisc(a)][IdxToDisc(b)]

\* pairs of the upper triangle that conflict
ConflictPairs ==
    {par \in TodasDiscs \X TodasDiscs : par[1] < par[2] /\ Conflicts(par[1], par[2]) = 1}

SementeOciosa == [ordem |-> <<>>, k |-> 0, sol |-> <<>>, cargas |-> <<>>]

MutOciosa ==
    [crom |-> <<>>, g |-> 0, cargas |-> <<>>, disciplinas_por_prof |-> <<>>,
     caminho |-> "nenhum"]

\* _escolher_professor_valido: professors that still take the course
CandidatosCapacidade(cargas, d) ==
    {p \in TodosProfs : cargas[p] + ChDisciplina(d) <= ChMax(p)}

\* professors of the already allocated courses that conflict with d
ProfsConflitantes(sol, d) ==
    {sol[j] : j \in {c \in TodasDiscs : sol[c] >= 1 /\ Conflicts(d, c) = 1}}

\* the preference-weighted draw: with a positive sum a professor of weight
\* zero is never drawn
SorteioPonderado(candidatos, d) ==
    IF SumSeq([p \in TodosProfs |-> IF p \in candidatos THEN PrefMatrix(p, d) ELSE 0]) <= 0
    THEN candidatos
    ELSE {p \in candidatos : PrefMatrix(p, d) > 0}

\* the marker of an unassigned course returned instead of a professor
SemCandidatoMarcador == {-1}

\* what the call returned when no professor passes the filters:
\* random.randrange(self.n_prof)
SemCandidato == TodosProfs

\* the professors a call of _escolher_professor_valido can return; the empty
\* set stands for the ValueError of randrange(0)
EscolherProfessorValido(d, sol, cargas) ==
    LET candidatos == CandidatosCapacidade(cargas, d)
        validos == candidatos \ ProfsConflitantes(sol, d)
    IN  IF candidatos = {} \/ validos = {}
        THEN SemCandidato
        ELSE SorteioPonderado(validos, d)

\* _calcular_fitness_populacao for one individual
SomaPref(crom) == SumSeq([d \in TodasDiscs |-> PrefMatrix(crom[d], d)])

CargasProf(crom) ==
    [p \in TodosProfs |->
        SumSeq([d \in TodasDiscs |-> IF crom[d] = p THEN ChDisciplina(d) ELSE 0])]

\* the excess summed without the cut at zero
ExcessoSemCorte(crom) ==
    SumSeq([p \in TodosProfs |-> CargasProf(crom)[p] - ChMax(p)])

Excesso(crom) ==
    SumSeq([p \in TodosProfs |->
        IF CargasProf(crom)[p] - ChMax(p) > 0
        THEN CargasProf(crom)[p] - ChMax(p) ELSE 0])

NumConflitos(crom) ==
    Cardinality({par \in ConflictPairs : crom[par[1]] = crom[par[2]]})

Fitness(crom) ==
    SomaPref(crom) - Excesso(crom) * config.fator_penalidade
                   - NumConflitos(crom) * config.fator_penalidade

FitnessPopulacao(pop) == [i \in DOMAIN pop |-> Fitness(pop[i])]

\* np.argmax: the first index of highest value
ArgMax(f) ==
    CHOOSE i \in DOMAIN f :
        /\ \A j \in DOMAIN f : f[j] <= f[i]
        /\ \A j \in 1..(i - 1) : f[j] < f[i]

MinSeq(f) == CHOOSE v \in Range(f) : \A j \in DOMAIN f : v <= f[j]

\* np.argsort(fitness)[-tamanho_elite:][::-1]: indices of the highest values,
\* best first; the order of equal values is left to the sort
ElitesPossiveis(f, tamanho_elite) ==
    LET n == IF tamanho_elite < Len(f) THEN tamanho_elite ELSE Len(f)
    IN  {e \in [1..n -> DOMAIN f] :
            /\ \A i, j \in 1..n : i # j => e[i] # e[j]
            /\ \A i, j \in 1..n : i < j => f[e[i]] >= f[e[j]]
            /\ \A i \in 1..n : \A x \in DOMAIN f \ Range(e) : f[x] <= f[e[i]]}

\* _selecao_por_torneio: the individuals that win some draw of tamanho_torneio
\* distinct competitors (empty when the draw is impossible: ValueError)
Vencedores(f, tamanho_torneio) ==
    {v \in DOMAIN f :
        \E S \in SUBSET DOMAIN f :
            /\ Cardinality(S) = tamanho_torneio
            /\ v \in S
            /\ \A x \in S : f[x] <= f[v]}

\* _crossover at the cut point ponto
Cruzar(pai1, pai2, ponto) ==
    << SubSeq(pai1, 1, ponto) \o SubSeq(pai2, ponto + 1, Len(pai2)),
       SubSeq(pai2, 1, ponto) \o SubSeq(pai1, ponto + 1, Len(pai1)) >>

\* _mutacao: helper sem_conflito_idx
SemConflitoIdx(disc_idx_nova, disc_indices_atual) ==
    \A k \in DOMAIN disc_indices_atual :
        \/ disc_indices_atual[k] = disc_idx_nova
        \/ Conflicts(disc_indices_atual[k], disc_idx_nova) # 1

RemoverDe(lista, d) == SelectSeq(lista, LAMBDA x : x # d)

\* initial bookkeeping of _mutacao
MutInicial(crom) ==
    [crom |-> crom,
     g |-> 1,
     cargas |-> CargasProf(crom),
     disciplinas_por_prof |->
        [p \in TodosProfs |-> SetToSeq({d \in TodasDiscs : crom[d] = p})],
     caminho |-> "nenhum"]

\* target professors the weighted draw can return for the course
AlvosPossiveis(d) == SorteioPonderado(TodosProfs, d)

\* the course moves from origem to destino
MoverGene(m, g, origem, destino, rotulo) ==
    [m EXCEPT
        !.disciplinas_por_prof =
            [p \in TodosProfs |->
                IF p = origem THEN RemoverDe(m.disciplinas_por_prof[p], g)
                ELSE IF p = destino THEN Append(m.disciplinas_por_prof[p], g)
                ELSE m.disciplinas_por_prof[p]],
        !.cargas =
            [p \in TodosProfs |->
                IF p = origem THEN m.cargas[p] - ChDisciplina(g)
                ELSE IF p = destino THEN m.cargas[p] + ChDisciplina(g)
                ELSE m.cargas[p]],
        !.crom[g] = destino,
        !.g = g + 1,
        !.caminho = rotulo]

\* the shift tested on the conflicts alone
ShiftPossivelSoConflito(m, g, alvo) ==
    SemConflitoIdx(g, m.disciplinas_por_prof[alvo])

ShiftPossivel(m, g, alvo) ==
    /\ m.cargas[alvo] + ChDisciplina(g) <= ChMax(alvo)
    /\ SemConflitoIdx(g, m.disciplinas_por_prof[alvo])

\* sorted(swap_list, key=preference of the target): stable, lowest first
RECURSIVE OrdenarPorPreferencia(_, _)
OrdenarPorPreferencia(lista, alvo) ==
    IF lista = <<>> THEN <<>>
    ELSE LET i == CHOOSE i \in DOMAIN lista :
                    /\ \A j \in DOMAIN lista :
                          PrefMatrix(alvo, lista[i]) <= PrefMatrix(alvo, lista[j])
                    /\ \A j \in 1..(i - 1) :
                          PrefMatrix(alvo, lista[j]) > PrefMatrix(alvo, lista[i])
         IN  <<lista[i]>> \o
             OrdenarPorPreferencia(
                [k \in 1..(Len(lista) - 1) |-> IF k < i THEN lista[k] ELSE lista[k + 1]],
                alvo)

SwapViavel(m, g, origem, alvo, d_swap) ==
    /\ d_swap # g
    /\ m.cargas[origem] - ChDisciplina(g) + ChDisciplina(d_swap) <= ChMax(origem)
    /\ SemConflitoIdx(d_swap, RemoverDe(m.disciplinas_por_prof[origem], g))
    /\ SemConflitoIdx(g, RemoverDe(m.disciplinas_por_prof[alvo], d_swap))

\* the candidates of the swap that pass, in the order they are tried
SwapsViaveis(m, g, origem, alvo) ==
    SelectSeq(OrdenarPorPreferencia(m.disciplinas_por_prof[alvo], alvo),
              LAMBDA d : SwapViavel(m, g, origem, alvo, d))

ExecutarSwap(m, g, origem, alvo, d_swap) ==
    [m EXCEPT
        !.crom = [d \in TodasDiscs |->
                    IF d = g THEN alvo ELSE IF d = d_swap THEN origem ELSE m.crom[d]],
        !.disciplinas_por_prof =
            [p \in TodosProfs |->
                IF p = origem
                THEN Append(RemoverDe(m.disciplinas_por_prof[p], g), d_swap)
                ELSE IF p = alvo
                THEN Append(RemoverDe(m.disciplinas_por_prof[p], d_swap), g)
                ELSE m.disciplinas_por_prof[p]],
        !.cargas =
            [p \in TodosProfs |->
                IF p = origem
                THEN m.cargas[p] - ChDisciplina(g) + ChDisciplina(d_swap)
                ELSE IF p = alvo
                THEN m.cargas[p] - ChDisciplina(d_swap) + ChDisciplina(g)
                ELSE m.cargas[p]],
        !.g = g + 1,
        !.caminho = "swap"]

\* fallback: the chromosome without the gene and its loads
SolParcial(crom, g) == [d \in TodasDiscs |-> IF d = g THEN -1 ELSE crom[d]]

CargasFallback(crom, g) ==
    [p \in TodosProfs |->
        SumSeq([d \in TodasDiscs |->
            IF d # g /\ crom[d] = p THEN ChDisciplina(d) ELSE 0])]

\* what the fallback leaves when the helper returned novo_prof
AplicarFallback(m, g, origem, novo_prof) ==
    IF novo_prof # origem
    THEN MoverGene(m, g, origem, novo_prof, "fallback")
    ELSE [m EXCEPT !.g = g + 1, !.caminho = "fallback"]

\* the states one drawn gene can leave, given the target professor drawn
ResultadosAlvo(m, g, alvo) ==
    LET origem == m.crom[g]
        swaps == SwapsViaveis(m, g, origem, alvo)
    IN  IF alvo = origem
        THEN {[m EXCEPT !.g = g + 1, !.caminho = "igual"]}
        ELSE IF ShiftPossivel(m, g, alvo)
        THEN {MoverGene(m, g, origem, alvo, "shift")}
        ELSE IF m.disciplinas_por_prof[alvo] # <<>> /\ swaps # <<>>
        THEN {ExecutarSwap(m, g, origem, alvo, swaps[1])}
        ELSE {AplicarFallback(m, g, origem, novo) :
                novo \in EscolherProfessorValido(g, SolParcial(m.crom, g),
                                                 CargasFallback(m.crom, g))}

\* one iteration of the loop over the genes: not drawn, or drawn with a target
ResultadosGene(m) ==
    {[m EXCEPT !.g = m.g + 1, !.caminho = "pulou"]}
    \cup UNION {ResultadosAlvo(m, m.g, alvo) : alvo \in AlvosPossiveis(m.g)}

\* where the program goes once the population has n individuals
AposSemear(pop) ==
    IF Len(pop) < config.n_populacao THEN "semeando"
    ELSE IF config.n_geracoes = 0 THEN "formatar_ag" ELSE "avaliar"

\* resolver -> _resolver_nucleo -> _gerar_populacao_inicial
IniciarAGFast ==
    /\ pc = "construido"
    /\ config.solver = "AGFast"
    /\ populacao' = <<>>
    /\ estagnacao' = [stagnation_count |-> 0, prev_best |-> None]
    /\ geracao' = 0
    /\ pc' = AposSemear(<<>>)
    /\ UNCHANGED <<varsEntrada, varsProcesso, chamadas, varsPrep, varsACO, melhor_fitness_global, nova_pop,
                   semente, filhos, mut, melhor_qualidade_global, melhor_solucao_global,
                   metricas_iteracao, resultado>>

\* one individual of the initial population is started on a shuffled order
IniciarIndividuo ==
    /\ pc = "semeando"
    /\ IF NumDiscsRed = 0
       THEN /\ populacao' = Append(populacao, <<>>)
            /\ pc' = AposSemear(populacao')
            /\ UNCHANGED semente
       ELSE /\ \E ordem \in Permutacoes(NumDiscsRed) :
                 semente' = [ordem |-> ordem, k |-> 1,
                             sol |-> [d \in TodasDiscs |-> -1],
                             cargas |-> [p \in TodosProfs |-> 0]]
            /\ pc' = "semeando_gene"
            /\ UNCHANGED populacao
    /\ UNCHANGED <<varsEntrada, varsProcesso, chamadas, varsPrep, varsACO, melhor_fitness_global, estagnacao,
                   nova_pop, filhos, mut, varsBusca, resultado>>

\* one course of the individual receives its professor
SemearGene ==
    /\ pc = "semeando_gene"
    /\ LET d_idx == semente.ordem[semente.k]
           escolhas == EscolherProfessorValido(d_idx, semente.sol, semente.cargas)
       IN  IF escolhas = {}
           THEN /\ pc' = "excecao"
                /\ UNCHANGED <<semente, populacao>>
           ELSE \E p_idx \in escolhas :
                LET sol == [semente.sol EXCEPT ![d_idx] = p_idx]
                    cargas == [semente.cargas EXCEPT
                                  ![p_idx] = @ + ChDisciplina(d_idx)]
                IN  IF semente.k = NumDiscsRed
                    THEN /\ populacao' = Append(populacao, sol)
                         /\ semente' = SementeOciosa
                         /\ pc' = AposSemear(populacao')
                    ELSE /\ semente' = [semente EXCEPT !.k = @ + 1, !.sol = sol,
                                                       !.cargas = cargas]
                         /\ pc' = "semeando_gene"
                         /\ UNCHANGED populacao
    /\ UNCHANGED <<varsEntrada, varsProcesso, chamadas, varsPrep, varsACO, melhor_fitness_global, estagnacao,
                   nova_pop, filhos, mut, varsBusca, resultado>>

\* head of a generation: fitness, all-time best, stagnation, elite
AvaliarGeracao ==
    /\ pc = "avaliar"
    /\ LET fitness == FitnessPopulacao(populacao)
           melhor_idx == ArgMax(fitness)
           melhor_fit == fitness[melhor_idx]
       IN  /\ IF melhor_fitness_global = None \/ melhor_fit > melhor_fitness_global[1]
              THEN /\ melhor_fitness_global' = Some(melhor_fit)
                   /\ melhor_solucao_global' = Some(populacao[melhor_idx])
              ELSE UNCHANGED <<melhor_fitness_global, melhor_solucao_global>>
           /\ estagnacao' =
                IF estagnacao.prev_best # None /\ melhor_fit <= estagnacao.prev_best[1]
                THEN [estagnacao EXCEPT !.stagnation_count = @ + 1]
                ELSE [stagnation_count |-> 0, prev_best |-> Some(melhor_fit)]
           /\ IF config.tamanho_elite > 0
              THEN \E elite_indices \in ElitesPossiveis(fitness, config.tamanho_elite) :
                     nova_pop' = [i \in DOMAIN elite_indices |->
                                     populacao[elite_indices[i]]]
              ELSE nova_pop' = <<>>
    /\ pc' = "reproduzir"
    /\ UNCHANGED <<varsEntrada, varsProcesso, chamadas, varsPrep, varsACO, populacao, semente, filhos, mut,
                   melhor_qualidade_global, metricas_iteracao, geracao, resultado>>

\* two tournaments and the crossover; randint(1, n_disc - 1) raises ValueError
\* when the chromosome has fewer than two genes
Reproduzir ==
    /\ pc = "reproduzir"
    /\ Len(nova_pop) < config.n_populacao
    /\ LET vencedores == Vencedores(FitnessPopulacao(populacao), config.tamanho_torneio)
       IN  IF vencedores = {}
           THEN /\ pc' = "excecao"
                /\ UNCHANGED filhos
           ELSE \E v1 \in vencedores, v2 \in vencedores, cruza \in BOOLEAN :
                  IF ~cruza
                  THEN /\ filhos' = <<populacao[v1], populacao[v2]>>
                       /\ pc' = "mutar"
                  ELSE IF NumDiscsRed < 2
                  THEN /\ pc' = "excecao"
                       /\ UNCHANGED filhos
                  ELSE \E ponto \in 1..(NumDiscsRed - 1) :
                         /\ filhos' = Cruzar(populacao[v1], populacao[v2], ponto)
                         /\ pc' = "mutar"
    /\ UNCHANGED <<varsEntrada, varsProcesso, chamadas, varsPrep, varsACO, populacao, melhor_fitness_global,
                   estagnacao, nova_pop, semente, mut, varsBusca, resultado>>

\* call of _mutacao on the next offspring
IniciarMutacao ==
    /\ pc = "mutar"
    /\ mut' = MutInicial(Head(filhos))
    /\ filhos' = Tail(filhos)
    /\ pc' = "mutando"
    /\ UNCHANGED <<varsEntrada, varsProcesso, chamadas, varsPrep, varsACO, populacao, melhor_fitness_global,
                   estagnacao, nova_pop, semente, varsBusca, resultado>>

\* one iteration of the loop over the genes
MutarGene ==
    /\ pc = "mutando"
    /\ mut.g <= NumDiscsRed
    /\ \E m \in ResultadosGene(mut) : mut' = m
    /\ UNCHANGED <<varsEntrada, varsProcesso, chamadas, pc, varsPrep, varsACO, populacao, melhor_fitness_global,
                   estagnacao, nova_pop, semente, filhos, varsBusca, resultado>>

\* _mutacao returns; the mutant joins the new population and the second
\* offspring is mutated only while the population is short
ConcluirMutacao ==
    /\ pc = "mutando"
    /\ mut.g > NumDiscsRed
    /\ nova_pop' = Append(nova_pop, mut.crom)
    /\ mut' = MutOciosa
    /\ IF filhos # <<>> /\ Len(nova_pop') < config.n_populacao
       THEN /\ pc' = "mutar"
            /\ UNCHANGED filhos
       ELSE /\ pc' = "reproduzir"
            /\ filhos' = <<>>
    /\ UNCHANGED <<varsEntrada, varsProcesso, chamadas, varsPrep, varsACO, populacao, melhor_fitness_global,
                   estagnacao, semente, varsBusca, resultado>>

\* the metrics record of a generation of the genetic algorithm
MetricaAGFast(g, pop, melhor_global, est) ==
    LET fitness == FitnessPopulacao(pop)
        melhor_idx == ArgMax(fitness)
    IN  [geracao |-> g + 1,
         melhor_geracao |-> fitness[melhor_idx],
         melhor_global |-> melhor_global,
         media_geracao |-> Frac(SumSeq(fitness), Len(fitness)),
         pior_geracao |-> MinSeq(fitness),
         soma_preferencias_melhor |-> SomaPref(pop[melhor_idx]),
         penalidade_carga_melhor |-> Excesso(pop[melhor_idx]) * config.fator_penalidade,
         penalidade_conflito_melhor |->
            NumConflitos(pop[melhor_idx]) * config.fator_penalidade,
         melhoria_relativa |-> fitness[melhor_idx] - est.prev_best[1],
         stagnation_count |-> est.stagnation_count]

\* end of a generation: the new population replaces the old one, metrics,
\* stagnation limit; levantou tells whether the callback, if called, raised
FimGeracaoAGFastCom(levantou) ==
    /\ pc = "reproduzir"
    /\ Len(nova_pop) >= config.n_populacao
    /\ populacao' = SubSeq(nova_pop, 1, config.n_populacao)
    /\ nova_pop' = <<>>
    /\ metricas_iteracao' =
         Append(metricas_iteracao,
                MetricaAGFast(geracao, populacao, melhor_fitness_global[1], estagnacao))
    /\ geracao' = geracao + 1
    /\ pc' = AposCallback(levantou,
                IF \/ geracao + 1 = config.n_geracoes
                   \/ /\ config.stagnation_limit # None
                      /\ estagnacao.stagnation_count >= config.stagnation_limit[1]
                THEN "formatar_ag" ELSE "avaliar")
    /\ UNCHANGED <<varsEntrada, varsProcesso, varsPrep, varsACO, melhor_fitness_global, estagnacao,
                   semente, filhos, mut, melhor_qualidade_global, melhor_solucao_global,
                   resultado>>

\* the callback is called with the record just appended
FimGeracaoAGFast ==
    \E levantou \in ResultadosCallback :
        /\ FimGeracaoAGFastCom(levantou)
        /\ chamadas' = ChamarCallback(metricas_iteracao'[Len(metricas_iteracao')],
                                      levantou)

\* _formatar_solucao_final: one row per gene of the best chromosome
AlocacaoParcialAGFast(crom) ==
    [d \in DOMAIN crom |->
        [id_disciplina |-> IdxToDisc(d),
         id_docente |-> IdxToProf(crom[d]),
         preferencia |-> PrefMatrix(crom[d], d)]]

\* after the loop: _formatar_solucao_final, then resolver's recomposition
FinalizarAGFast ==
    /\ pc = "formatar_ag"
    /\ resultado' =
         IF melhor_solucao_global = None
         THEN None
         ELSE Some([alocacao_final |->
                        RecomporSolucao(AlocacaoParcialAGFast(melhor_solucao_global[1])),
                    valor_objetivo |-> melhor_fitness_global[1]])
    /\ pc' = "fim"
    /\ UNCHANGED <<varsEntrada, varsProcesso, chamadas, varsPrep, varsACO, varsAG, varsBusca>>

-----------------------------------------------------------------------------
(* OtimizadorAG (otimizador_ag.py) *)

\* the identifiers the solver works with: professors and courses come from
\* different tables, so an identifier of one is never an identifier of the
\* other
IdDocente(p) == <<"docente", IdxToProf(p)>>

IdDisciplina(d) == <<"disciplina", IdxToDisc(d)>>

\* matriz_conflitos[matriz_conflitos[disciplina_id] == 1].index
DisciplinasComConflito(d) ==
    {IdDisciplina(c) : c \in {x \in TodasDiscs : Conflicts(x, d) = 1}}

\* the loop over solucao_parcial.items(): the dictionary maps a course to its
\* professor, so the key lands in prof and the value in disc_alocada; the
\* value is looked up among the courses and the key is collected
ProfessoresInvalidos(sol, d) ==
    {IdDisciplina(chave) :
        chave \in {c \in TodasDiscs :
                      /\ sol[c] >= 1
                      /\ IdDocente(sol[c]) \in DisciplinasComConflito(d)}}

CandidatosValidos(d, sol, cargas) ==
    {p \in CandidatosCapacidade(cargas, d) :
        IdDocente(p) \notin ProfessoresInvalidos(sol, d)}

\* random.choices(candidatos, weights=preferencias) and the uniform draw of a
\* zero sum
SorteioPonderadoAG(candidatos, d) ==
    IF SumSeq([p \in TodosProfs |-> IF p \in candidatos THEN PrefMatrix(p, d) ELSE 0]) = 0
    THEN candidatos
    ELSE {p \in candidatos : PrefMatrix(p, d) > 0}

\* the professors a call of OtimizadorAG._escolher_professor_valido can return
EscolherProfessorValidoAG(d, sol, cargas) ==
    LET candidatos_validos == CandidatosValidos(d, sol, cargas)
    IN  IF candidatos_validos = {}
        THEN TodosProfs
        ELSE SorteioPonderadoAG(candidatos_validos, d)

\* place of individual i after populacao_com_fitness.sort(reverse=True): the
\* sort is stable, equal fitness keeps the order of the population
PosicaoNaOrdem(f, i) ==
    1 + Cardinality({j \in DOMAIN f : f[j] > f[i] \/ (f[j] = f[i] /\ j < i)})

\* the same cut taken from the other end of the order
ElitesAGPiores(f, tamanho_elite) ==
    LET n == IF tamanho_elite < Len(f) THEN tamanho_elite ELSE Len(f)
    IN  [r \in 1..n |-> CHOOSE i \in DOMAIN f : PosicaoNaOrdem(f, i) = Len(f) + 1 - r]

\* populacao_com_fitness[:tamanho_elite]
ElitesAG(f, tamanho_elite) ==
    LET n == IF tamanho_elite < Len(f) THEN tamanho_elite ELSE Len(f)
    IN  [r \in 1..n |-> CHOOSE i \in DOMAIN f : PosicaoNaOrdem(f, i) = r]

\* _mutacao: a swap is tried on the conflicts alone
SwapViavelAG(m, g, origem, alvo, d_swap) ==
    /\ d_swap # g
    /\ SemConflitoIdx(d_swap, RemoverDe(m.disciplinas_por_prof[origem], g))
    /\ SemConflitoIdx(g, RemoverDe(m.disciplinas_por_prof[alvo], d_swap))

SwapsViaveisAG(m, g, origem, alvo) ==
    SelectSeq(OrdenarPorPreferencia(m.disciplinas_por_prof[alvo], alvo),
              LAMBDA d : SwapViavelAG(m, g, origem, alvo, d))

\* the swap updates the chromosome and the lists, not the loads
ExecutarSwapAG(m, g, origem, alvo, d_swap) ==
    [m EXCEPT
        !.crom = [d \in TodasDiscs |->
                    IF d = g THEN alvo ELSE IF d = d_swap THEN origem ELSE m.crom[d]],
        !.disciplinas_por_prof =
            [p \in TodosProfs |->
                IF p = origem
                THEN Append(RemoverDe(m.disciplinas_por_prof[p], g), d_swap)
                ELSE IF p = alvo
                THEN Append(RemoverDe(m.disciplinas_por_prof[p], d_swap), g)
                ELSE m.disciplinas_por_prof[p]],
        !.g = g + 1,
        !.caminho = "swap"]

\* a drawn gene with its target: shift, else swap, else the gene is left
ResultadoAlvoAG(m, g, alvo) ==
    LET origem == m.crom[g]
        swaps == SwapsViaveisAG(m, g, origem, alvo)
    IN  IF alvo = origem
        THEN [m EXCEPT !.g = g + 1, !.caminho = "igual"]
        ELSE IF ShiftPossivel(m, g, alvo)
        THEN MoverGene(m, g, origem, alvo, "shift")
        ELSE IF swaps # <<>>
        THEN ExecutarSwapAG(m, g, origem, alvo, swaps[1])
        ELSE [m EXCEPT !.g = g + 1, !.caminho = "mantido"]

ResultadosGeneAG(m) ==
    {[m EXCEPT !.g = m.g + 1, !.caminho = "pulou"]}
    \cup {ResultadoAlvoAG(m, m.g, alvo) : alvo \in SorteioPonderadoAG(TodosProfs, m.g)}

AposSemearAG(pop) ==
    IF Len(pop) < config.n_populacao THEN "ag_semeando"
    ELSE IF config.n_geracoes = 0 THEN "ag_formatar" ELSE "ag_avaliar"

\* resolver -> _resolver_nucleo -> _gerar_populacao_inicial
IniciarAG ==
    /\ pc = "construido"
    /\ config.solver = "AG"
    /\ geracao' = 0
    /\ pc' = AposSemearAG(populacao)
    /\ UNCHANGED <<varsEntrada, varsProcesso, chamadas, varsPrep, varsACO, varsAG,
                   melhor_qualidade_global, melhor_solucao_global,
                   metricas_iteracao, resultado>>

\* one individual is started on a shuffled copy of the courses
IniciarIndividuoAG ==
    /\ pc = "ag_semeando"
    /\ IF NumDiscsRed = 0
       THEN /\ populacao' = Append(populacao, <<>>)
            /\ pc' = AposSemearAG(populacao')
            /\ UNCHANGED semente
       ELSE /\ \E ordem \in Permutacoes(NumDiscsRed) :
                 semente' = [ordem |-> ordem, k |-> 1,
                             sol |-> [d \in TodasDiscs |-> -1],
                             cargas |-> [p \in TodosProfs |-> 0]]
            /\ pc' = "ag_semeando_gene"
            /\ UNCHANGED populacao
    /\ UNCHANGED <<varsEntrada, varsProcesso, chamadas, varsPrep, varsACO, melhor_fitness_global, estagnacao,
                   nova_pop, filhos, mut, varsBusca, resultado>>

\* one course of the individual receives its professor
SemearGeneAG ==
    /\ pc = "ag_semeando_gene"
    /\ LET d_idx == semente.ordem[semente.k]
       IN  \E p_idx \in EscolherProfessorValidoAG(d_idx, semente.sol, semente.cargas) :
             LET sol == [semente.sol EXCEPT ![d_idx] = p_idx]
                 cargas == [semente.cargas EXCEPT ![p_idx] = @ + ChDisciplina(d_idx)]
             IN  IF semente.k = NumDiscsRed
                 THEN /\ populacao' = Append(populacao, sol)
                      /\ semente' = SementeOciosa
                      /\ pc' = AposSemearAG(populacao')
                 ELSE /\ semente' = [semente EXCEPT !.k = @ + 1, !.sol = sol,
                                                    !.cargas = cargas]
                      /\ pc' = "ag_semeando_gene"
                      /\ UNCHANGED populacao
    /\ UNCHANGED <<varsEntrada, varsProcesso, chamadas, varsPrep, varsACO, melhor_fitness_global, estagnacao,
                   nova_pop, filhos, mut, varsBusca, resultado>>

\* head of a generation: fitness, all-time best, elite
AvaliarGeracaoAG ==
    /\ pc = "ag_avaliar"
    /\ LET fitness_populacao == FitnessPopulacao(populacao)
           idx_melhor == ArgMax(fitness_populacao)
           melhor_fitness_geracao == fitness_populacao[idx_melhor]
           elites == ElitesAG(fitness_populacao, config.tamanho_elite)
       IN  /\ IF melhor_fitness_global = None
                 \/ melhor_fitness_geracao > melhor_fitness_global[1]
              THEN /\ melhor_fitness_global' = Some(melhor_fitness_geracao)
                   /\ melhor_solucao_global' = Some(populacao[idx_melhor])
              ELSE UNCHANGED <<melhor_fitness_global, melhor_solucao_global>>
           /\ nova_pop' = IF config.tamanho_elite > 0
                          THEN [r \in DOMAIN elites |-> populacao[elites[r]]]
                          ELSE <<>>
    /\ pc' = "ag_reproduzir"
    /\ UNCHANGED <<varsEntrada, varsProcesso, chamadas, varsPrep, varsACO, populacao, estagnacao, semente,
                   filhos, mut, melhor_qualidade_global, metricas_iteracao, geracao,
                   resultado>>

\* two tournaments and the crossover; random.sample raises ValueError when the
\* tournament is larger than the population, randint(1, len(pai1) - 1) when
\* the chromosome has fewer than two genes
ReproduzirAG ==
    /\ pc = "ag_reproduzir"
    /\ Len(nova_pop) < config.n_populacao
    /\ LET vencedores == Vencedores(FitnessPopulacao(populacao), config.tamanho_torneio)
       IN  IF vencedores = {}
           THEN /\ pc' = "excecao"
                /\ UNCHANGED filhos
           ELSE \E v1 \in vencedores, v2 \in vencedores, cruza \in BOOLEAN :
                  IF ~cruza
                  THEN /\ filhos' = <<populacao[v1], populacao[v2]>>
                       /\ pc' = "ag_mutar"
                  ELSE IF NumDiscsRed < 2
                  THEN /\ pc' = "excecao"
                       /\ UNCHANGED filhos
                  ELSE \E ponto_corte \in 1..(NumDiscsRed - 1) :
                         /\ filhos' = Cruzar(populacao[v1], populacao[v2], ponto_corte)
                         /\ pc' = "ag_mutar"
    /\ UNCHANGED <<varsEntrada, varsProcesso, chamadas, varsPrep, varsACO, populacao, melhor_fitness_global,
                   estagnacao, nova_pop, semente, mut, varsBusca, resultado>>

\* call of _mutacao on the next offspring
IniciarMutacaoAG ==
    /\ pc = "ag_mutar"
    /\ mut' = MutInicial(Head(filhos))
    /\ filhos' = Tail(filhos)
    /\ pc' = "ag_mutando"
    /\ UNCHANGED <<varsEntrada, varsProcesso, chamadas, varsPrep, varsACO, populacao, melhor_fitness_global,
                   estagnacao, nova_pop, semente, varsBusca, resultado>>

\* one iteration of the loop over the genes
MutarGeneAG ==
    /\ pc = "ag_mutando"
    /\ mut.g <= NumDiscsRed
    /\ \E m \in ResultadosGeneAG(mut) : mut' = m
    /\ UNCHANGED <<varsEntrada, varsProcesso, chamadas, pc, varsPrep, varsACO, populacao,
                   melhor_fitness_global, estagnacao, nova_pop, semente, filhos, varsBusca,
                   resultado>>

\* _mutacao returns; both offspring are mutated and appended
ConcluirMutacaoAG ==
    /\ pc = "ag_mutando"
    /\ mut.g > NumDiscsRed
    /\ nova_pop' = Append(nova_pop, mut.crom)
    /\ mut' = MutOciosa
    /\ pc' = IF filhos # <<>> THEN "ag_mutar" ELSE "ag_reproduzir"
    /\ UNCHANGED <<varsEntrada, varsProcesso, chamadas, varsPrep, varsACO, populacao, melhor_fitness_global,
                   estagnacao, semente, filhos, varsBusca, resultado>>

\* the metrics record of a generation
MetricaAG(g, pop, melhor_global) ==
    LET fitness_populacao == FitnessPopulacao(pop)
    IN  [geracao |-> g + 1,
         melhor_geracao |-> MaxSeq(fitness_populacao),
         melhor_global |-> melhor_global,
         media_geracao |-> Frac(SumSeq(fitness_populacao), Len(fitness_populacao))]

\* end of a generation: the new population cut to n_populacao, the metrics;
\* the loop body ends there, callback_iteracao is not used
FimGeracaoAG ==
    /\ pc = "ag_reproduzir"
    /\ Len(nova_pop) >= config.n_populacao
    /\ populacao' = SubSeq(nova_pop, 1, config.n_populacao)
    /\ nova_pop' = <<>>
    /\ metricas_iteracao' =
         Append(metricas_iteracao,
                MetricaAG(geracao, populacao, melhor_fitness_global[1]))
    /\ geracao' = geracao + 1
    /\ pc' = IF geracao + 1 = config.n_geracoes THEN "ag_formatar" ELSE "ag_avaliar"
    /\ UNCHANGED <<varsEntrada, varsProcesso, chamadas, varsPrep, varsACO, melhor_fitness_global,
                   estagnacao, semente, filhos, mut, melhor_qualidade_global,
                   melhor_solucao_global, resultado>>

\* after the loop: _formatar_solucao_final, then resolver's recomposition
FinalizarAG ==
    /\ pc = "ag_formatar"
    /\ resultado' =
         IF melhor_solucao_global = None
         THEN None
         ELSE Some([alocacao_final |->
                        RecomporSolucao(AlocacaoParcialAGFast(melhor_solucao_global[1])),
                    valor_objetivo |-> melhor_fitness_global[1]])
    /\ pc' = "fim"
    /\ UNCHANGED <<varsEntrada, varsProcesso, chamadas, varsPrep, varsACO, varsAG, varsBusca>>

-----------------------------------------------------------------------------
(* OtimizadorACOFast (otimizador_aco_fast.py) *)

\* int(self.heuristica[p, d] - 0.1): the heuristic is stored as float32, so
\* float32(2.1) - 0.1 is below 2 and truncates to 1; float32(3.1) - 0.1 is
\* 2.99999990... in float64, which NumPy before version 2 computes (int 2),
\* and rounds to 3.0 in float32, which NumPy from version 2 on computes
PreferenciaTruncada(pref, numpy_2) ==
    CASE pref = 0 -> 0
      [] pref = 1 -> 1
      [] pref = 2 -> 1
      [] pref = 3 -> IF numpy_2 THEN 3 ELSE 2

PreferenciaLimpaFast(p, d) ==
    PreferenciaTruncada(DP.preferencias[IdxToProf(p)][IdxToDisc(d)], config.numpy_2)

\* candidatos of _construir_solucao: room for the course, no course in
\* conflict already held
CandidatosFast(cargas, sol, d_idx) ==
    {p \in 1..NumProfsRed : cargas[p] + ArrChDisc(d_idx) <= ArrChProf(p)}
    \ {sol[c] : c \in {x \in 1..NumDiscsRed : ArrConflitos(d_idx, x) = 1 /\ sol[x] >= 1}}

\* the professors the draw can return: the heuristic is at least float32(0.1),
\* so the attractiveness is positive where the pheromone is
SorteaveisFast(fer, candidatos, d_idx) ==
    IF \A c \in candidatos : ~FPos(fer[c][d_idx])
    THEN candidatos
    ELSE {c \in candidatos : FPos(fer[c][d_idx])}

\* _depositar: 1.0 on every cell of the path
DepositarFast(fer, sol) ==
    [i \in DOMAIN fer |-> [j \in DOMAIN fer[i] |->
        IF sol[j] = i THEN FAdd(fer[i][j], <<1, 1>>) ELSE fer[i][j]]]

\* _evaporar, then _depositar on the all-time best when there is one
AtualizarFeromonioFast(fer, melhor_solucao, taxa) ==
    IF melhor_solucao = None
    THEN Evaporar(fer, taxa)
    ELSE DepositarFast(Evaporar(fer, taxa), melhor_solucao[1])

\* the stagnation control: only a generation with a feasible ant touches it
AtualizarEstagnacao(est, solucoes) ==
    IF solucoes = <<>>
    THEN est
    ELSE IF est.prev_best # None /\ MaxSeq(Qualidades(solucoes)) <= est.prev_best[1]
    THEN [est EXCEPT !.stagnation_count = @ + 1]
    ELSE [stagnation_count |-> 0, prev_best |-> Some(MaxSeq(Qualidades(solucoes)))]

\* the metrics record of a generation, est being the updated control
MetricaFast(g, solucoes, melhor_global, est) ==
    [geracao |-> g + 1,
     melhor_geracao |->
        IF solucoes = <<>> THEN None ELSE Some(MaxSeq(Qualidades(solucoes))),
     melhor_global |-> melhor_global,
     media_geracao |->
        IF solucoes = <<>> THEN None
        ELSE Some(Frac(SumSeq(Qualidades(solucoes)), Len(solucoes))),
     pior_geracao |->
        IF solucoes = <<>> THEN None ELSE Some(MinSeq(Qualidades(solucoes))),
     melhoria_relativa |->
        IF solucoes = <<>> THEN None
        ELSE Some(MaxSeq(Qualidades(solucoes)) - est.prev_best[1]),
     stagnation_count |-> est.stagnation_count]

\* resolver -> _resolver_nucleo up to the head of the generation loop
IniciarACOFast ==
    /\ pc = "construido"
    /\ config.solver = "ACOFast"
    /\ arr_feromonio' = FeromonioInicial
    /\ estagnacao' = [stagnation_count |-> 0, prev_best |-> None]
    /\ geracao' = 0
    /\ n_formiga' = 0
    /\ solucoes_da_geracao' = <<>>
    /\ pc' = IF config.n_geracoes = 0 THEN "fast_formatar" ELSE "fast_formigas"
    /\ UNCHANGED <<varsEntrada, varsProcesso, chamadas, varsPrep, formiga, deposito, populacao,
                   melhor_fitness_global, nova_pop, semente, filhos, mut,
                   melhor_qualidade_global, melhor_solucao_global, metricas_iteracao,
                   resultado>>

\* call of _construir_solucao: empty assignment and shuffled order
IniciarFormigaFast ==
    /\ pc = "fast_formigas"
    /\ n_formiga < config.n_formigas
    /\ \E ordem \in Permutacoes(NumDiscsRed) :
        formiga' = [ordem_disciplinas |-> ordem,
                    k |-> 1,
                    cargas_atuais |-> [p \in 1..NumProfsRed |-> 0],
                    solucao_indices |-> <<>>,
                    qualidade_solucao |-> 0,
                    alocacao_por_disciplina |-> [d \in 1..NumDiscsRed |-> -1],
                    retorno |-> IF NumDiscsRed = 0 THEN "viavel" ELSE "construindo"]
    /\ pc' = IF NumDiscsRed = 0 THEN "fast_retornou" ELSE "fast_construindo"
    /\ UNCHANGED <<varsEntrada, varsProcesso, chamadas, varsAG, varsPrep, arr_feromonio, n_formiga,
                   solucoes_da_geracao, deposito, varsBusca, resultado>>

\* one iteration of the loop over ordem
PassoFormigaFast ==
    /\ pc = "fast_construindo"
    /\ LET d_idx == formiga.ordem_disciplinas[formiga.k]
           candidatos == CandidatosFast(formiga.cargas_atuais,
                                        formiga.alocacao_por_disciplina, d_idx)
       IN  IF candidatos = {}
           THEN /\ formiga' = [formiga EXCEPT !.retorno = "inviavel"]
                /\ pc' = "fast_retornou"
           ELSE \E p_sel \in SorteaveisFast(arr_feromonio, candidatos, d_idx) :
                /\ formiga' =
                     [formiga EXCEPT
                        !.alocacao_por_disciplina[d_idx] = p_sel,
                        !.cargas_atuais[p_sel] = @ + ArrChDisc(d_idx),
                        !.qualidade_solucao = @ + PreferenciaLimpaFast(p_sel, d_idx),
                        !.k = @ + 1,
                        !.retorno = IF formiga.k = NumDiscsRed
                                    THEN "viavel" ELSE "construindo"]
                /\ pc' = IF formiga.k = NumDiscsRed
                         THEN "fast_retornou" ELSE "fast_construindo"
    /\ UNCHANGED <<varsEntrada, varsProcesso, chamadas, varsAG, varsPrep, arr_feromonio, n_formiga,
                   solucoes_da_geracao, deposito, varsBusca, resultado>>

\* the caller's handling of what the construction returned
RegistrarFormigaFast ==
    /\ pc = "fast_retornou"
    /\ IF formiga.retorno = "viavel"
       THEN /\ solucoes_da_geracao' =
                  Append(solucoes_da_geracao,
                         <<formiga.alocacao_por_disciplina, formiga.qualidade_solucao>>)
            /\ IF formiga.qualidade_solucao > melhor_qualidade_global
               THEN /\ melhor_qualidade_global' = formiga.qualidade_solucao
                    /\ melhor_solucao_global' = Some(formiga.alocacao_por_disciplina)
               ELSE UNCHANGED <<melhor_qualidade_global, melhor_solucao_global>>
       ELSE UNCHANGED <<solucoes_da_geracao, melhor_qualidade_global,
                        melhor_solucao_global>>
    /\ n_formiga' = n_formiga + 1
    /\ formiga' = FormigaOciosa
    /\ pc' = "fast_formigas"
    /\ UNCHANGED <<varsEntrada, varsProcesso, chamadas, varsAG, varsPrep, arr_feromonio, deposito,
                   metricas_iteracao, geracao, resultado>>

\* end of a generation for a callback that raised or not: evaporation,
\* deposit, stagnation control, metrics, stagnation limit
FimGeracaoFastCom(levantou) ==
    /\ pc = "fast_formigas"
    /\ n_formiga = config.n_formigas
    /\ arr_feromonio' = AtualizarFeromonioFast(arr_feromonio, melhor_solucao_global,
                                               config.taxa_evaporacao)
    /\ estagnacao' = AtualizarEstagnacao(estagnacao, solucoes_da_geracao)
    /\ metricas_iteracao' =
         Append(metricas_iteracao,
                MetricaFast(geracao, solucoes_da_geracao, melhor_qualidade_global,
                            estagnacao'))
    /\ geracao' = geracao + 1
    /\ n_formiga' = 0
    /\ solucoes_da_geracao' = <<>>
    /\ pc' = AposCallback(levantou,
                IF \/ /\ config.stagnation_limit # None
                      /\ estagnacao'.stagnation_count >= config.stagnation_limit[1]
                   \/ geracao + 1 = config.n_geracoes
                THEN "fast_formatar" ELSE "fast_formigas")
    /\ UNCHANGED <<varsEntrada, varsProcesso, varsPrep, formiga, deposito, populacao,
                   melhor_fitness_global, nova_pop, semente, filhos, mut,
                   melhor_qualidade_global, melhor_solucao_global, resultado>>

FimGeracaoFast ==
    \E levantou \in ResultadosCallback :
        /\ FimGeracaoFastCom(levantou)
        /\ chamadas' = ChamarCallback(metricas_iteracao'[Len(metricas_iteracao')],
                                      levantou)

\* _formatar: one row per course of the best assignment
AlocacaoParcialFast(sol) ==
    [d \in DOMAIN sol |->
        [id_disciplina |-> IdxToDisc(d),
         id_docente |-> IdxToProf(sol[d]),
         preferencia |-> PreferenciaLimpaFast(sol[d], d)]]

\* after the loop: _formatar, then resolver's recomposition
FinalizarACOFast ==
    /\ pc = "fast_formatar"
    /\ resultado' =
         IF melhor_solucao_global = None
         THEN None
         ELSE Some([alocacao_final |->
                        RecomporSolucao(AlocacaoParcialFast(melhor_solucao_global[1])),
                    valor_objetivo |-> melhor_qualidade_global])
    /\ pc' = "fim"
    /\ UNCHANGED <<varsEntrada, varsProcesso, chamadas, varsAG, varsPrep, varsACO, varsBusca>>

-----------------------------------------------------------------------------
(* The process: numpy.random shared by the solver instances *)

\* solver instances alive in one process, seeds they are given, draws of a run
NumInstancias == 2
MaxSemente == 2
MaxSorteios == 2

Instancias == 1..NumInstancias

Sementes == 1..MaxSemente

\* the generator before any call of np.random.seed
GeradorSemSemente == [semente |-> None, posicao |-> 0]

InstanciaAusente == [pc |-> "ausente", seed |-> None, sorteios |-> <<>>]

\* Otimizador.__init__: self.seed = config.get("SEED"); a seed that is not None
\* is given to np.random.seed, which resets the generator of the process
SemearGerador(gerador, seed) ==
    IF seed # None THEN [semente |-> seed, posicao |-> 0] ELSE gerador

varsSolver == <<pc, varsPrep, varsACO, varsAG, varsBusca, chamadas, resultado>>

varsTarefas == <<ESTADOS, thread, chegadas, leitor>>

ConstruirInstancia(i) ==
    /\ instancias[i].pc = "ausente"
    /\ \E seed \in {None} \cup {Some(s) : s \in Sementes} :
        /\ instancias' = [instancias EXCEPT ![i] = [pc |-> "construida", seed |-> seed,
                                                     sorteios |-> <<>>]]
        /\ np_random' = SemearGerador(np_random, seed)
    /\ UNCHANGED <<varsEntrada, varsSolver, varsTarefas>>

\* resolver is called on the instance
ResolverInstancia(i) ==
    /\ instancias[i].pc = "construida"
    /\ instancias' = [instancias EXCEPT ![i].pc = "resolvendo"]
    /\ UNCHANGED <<np_random, varsEntrada, varsSolver, varsTarefas>>

\* np.random.permutation / np.random.choice of the ant construction: the value
\* is the next one of the stream the generator is on, and the generator advances
SortearInstancia(i) ==
    /\ instancias[i].pc = "resolvendo"
    /\ Len(instancias[i].sorteios) < MaxSorteios
    /\ instancias' = [instancias EXCEPT
                         ![i].sorteios = Append(@, <<np_random.semente, np_random.posicao>>)]
    /\ np_random' = [np_random EXCEPT !.posicao = @ + 1]
    /\ UNCHANGED <<varsEntrada, varsSolver, varsTarefas>>

\* the run ends; its assignment is a function of the draws it received
ConcluirInstancia(i) ==
    /\ instancias[i].pc = "resolvendo"
    /\ Len(instancias[i].sorteios) = MaxSorteios
    /\ instancias' = [instancias EXCEPT ![i].pc = "fim"]
    /\ UNCHANGED <<np_random, varsEntrada, varsSolver, varsTarefas>>

-----------------------------------------------------------------------------
(* tarefas.py: one job, its worker thread and a reader of its state *)

\* calls of _callback_iteracao from outside the worker, best objective a
\* generation can report
MaxChegadas == 1
MaxObjetivo == 1

\* metricas_ultimas keeps the last 30 records
LimiteUltimas == 30

ThreadAusente ==
    [pc |-> "ausente", geracao |-> 0, melhor |-> -1, desfecho |-> "nenhum",
     id_execucao |-> None, valor_objetivo |-> None, erro |-> None]

LeitorOcioso ==
    [pc |-> "ocioso", status |-> "nenhum", progress |-> None, id_execucao_final |-> None]

\* Python's a or b on numbers and None
Verdadeiro(a) == a # None /\ a[1] # 0

PyOr(a, b) == IF Verdadeiro(a) THEN a ELSE b

\* _inferir_total_iteracoes
InferirTotalIteracoes(cfg) ==
    IF cfg.solver \in {"ACO", "AG"} THEN cfg.n_geracoes ELSE 1

\* the dictionary iniciar_job stores for the job
EstadoInicial(cfg) ==
    [status |-> "running",
     algoritmo |-> cfg.solver,
     progress |-> <<0, 1>>,
     iteracao_atual |-> 0,
     total_iteracoes |-> InferirTotalIteracoes(cfg),
     melhor_objetivo |-> None,
     metricas_ultimas |-> <<>>,
     id_execucao_final |-> None,
     erro |-> None]

\* min(1.0, iteracao / total) as a fraction
Progresso(iteracao, total) ==
    IF iteracao >= total THEN <<1, 1>> ELSE <<iteracao, total>>

UltimasCom(ult, metrica) ==
    IF Len(ult) + 1 > LimiteUltimas THEN Tail(Append(ult, metrica)) ELSE Append(ult, metrica)

\* the body of _callback_iteracao once the job is known to be running
AplicarMetrica(estado, metrica) ==
    LET iteracao == PyOr(PyOr(metrica.geracao, metrica.iteracao),
                         Some(estado.iteracao_atual + 1))[1]
        total == IF estado.total_iteracoes = 0 THEN 1 ELSE estado.total_iteracoes
        melhor_global == PyOr(metrica.melhor_global, metrica.melhor_geracao)
    IN  [estado EXCEPT
            !.iteracao_atual = iteracao,
            !.progress = Progresso(iteracao, total),
            !.melhor_objetivo = IF melhor_global # None THEN melhor_global ELSE @,
            !.metricas_ultimas = UltimasCom(@, metrica)]

\* the callback without the test of the status
CallbackSemTeste(estados, metrica) ==
    IF estados = <<>> THEN estados
    ELSE <<AplicarMetrica(estados[1], metrica)>>

\* _callback_iteracao: nothing is done for an unknown job or one not running
CallbackIteracao(estados, metrica) ==
    IF estados = <<>> \/ estados[1].status # "running" THEN estados
    ELSE <<AplicarMetrica(estados[1], metrica)>>

\* who called the callback and the status the call found
Chegada(de) ==
    [de |-> de, status |-> IF ESTADOS = <<>> THEN "ausente" ELSE ESTADOS[1].status]

\* iniciar_job: the state is stored, then the worker thread is started
IniciarJob ==
    /\ ESTADOS = <<>>
    /\ thread.pc = "ausente"
    /\ ESTADOS' = <<EstadoInicial(config)>>
    /\ thread' = [thread EXCEPT !.pc = "factory"]
    /\ UNCHANGED <<varsEntrada, varsSolver, np_random, instancias, chegadas, leitor>>

\* _resolver_factory: the constructor returns, or raises the ValueError of a
\* fixed list that overloads a professor
FabricarSolver ==
    /\ thread.pc = "factory"
    /\ \E levantou \in BOOLEAN :
        thread' = IF levantou
                  THEN [thread EXCEPT !.pc = "except", !.desfecho = "excecao",
                                      !.erro = Some("ValueError")]
                  ELSE [thread EXCEPT !.pc = "resolver"]
    /\ UNCHANGED <<varsEntrada, varsSolver, np_random, instancias, ESTADOS, chegadas, leitor>>

\* the record of a generation: melhor_global never falls and rises only to the
\* best of the generation, melhor_geracao is None when no individual of the
\* generation is feasible
MetricasDaGeracao(g, melhor) ==
    {[geracao |-> Some(g), iteracao |-> None, melhor_global |-> Some(mg),
      melhor_geracao |-> mger] :
        mg \in {m \in -1..MaxObjetivo : m >= melhor},
        mger \in {None} \cup {Some(x) : x \in 0..MaxObjetivo}}

\* instancia.resolver, one generation: the record is appended and, in
\* OtimizadorACO, handed to the callback of the job; or the solver raises
GeracaoDoJob ==
    /\ thread.pc = "resolver"
    /\ thread.geracao < config.n_geracoes
    /\ \/ \E metrica \in MetricasDaGeracao(thread.geracao + 1, thread.melhor) :
            /\ metrica.melhor_geracao # None =>
                  (metrica.melhor_geracao[1] <= metrica.melhor_global[1])
            /\ metrica.melhor_global[1] > thread.melhor =>
                  (metrica.melhor_geracao = metrica.melhor_global)
            /\ thread' = [thread EXCEPT !.geracao = @ + 1,
                                        !.melhor = metrica.melhor_global[1]]
            /\ IF config.solver = "ACO"
               THEN /\ ESTADOS' = CallbackIteracao(ESTADOS, metrica)
                    /\ chegadas' = Append(chegadas, Chegada("resolver"))
               ELSE UNCHANGED <<ESTADOS, chegadas>>
       \/ /\ thread' = [thread EXCEPT !.pc = "except", !.desfecho = "excecao",
                                      !.erro = Some("ValueError")]
          /\ UNCHANGED <<ESTADOS, chegadas>>
    /\ UNCHANGED <<varsEntrada, varsSolver, np_random, instancias, leitor>>

\* resolver returns after the last generation, or earlier on its time limit:
\* None without a best solution, else the result; resultado.get on None raises
RetornoDoJob ==
    /\ thread.pc = "resolver"
    /\ thread.geracao = config.n_geracoes \/ thread.geracao >= 1
    /\ thread' = IF thread.melhor = -1
                 THEN [thread EXCEPT !.pc = "except", !.desfecho = "sem_solucao",
                                     !.erro = Some("AttributeError")]
                 ELSE [thread EXCEPT !.pc = "salvar", !.desfecho = "resultado",
                                     !.valor_objetivo = Some(thread.melhor)]
    /\ UNCHANGED <<varsEntrada, varsSolver, np_random, instancias, ESTADOS, chegadas, leitor>>

\* persistencia.salvar_resultado returns the identifier of the run, or raises
SalvarResultado ==
    /\ thread.pc = "salvar"
    /\ \E levantou \in BOOLEAN :
        thread' = IF levantou
                  THEN [thread EXCEPT !.pc = "except", !.desfecho = "excecao",
                                      !.erro = Some("OSError")]
                  ELSE [thread EXCEPT !.pc = "status", !.id_execucao = Some("id")]
    /\ UNCHANGED <<varsEntrada, varsSolver, np_random, instancias, ESTADOS, chegadas, leitor>>

\* estado['status'] = 'done'
MarcarDone ==
    /\ thread.pc = "status"
    /\ ESTADOS' = <<[ESTADOS[1] EXCEPT !.status = "done"]>>
    /\ thread' = [thread EXCEPT !.pc = "progress"]
    /\ UNCHANGED <<varsEntrada, varsSolver, np_random, instancias, chegadas, leitor>>

\* estado['progress'] = 1.0
MarcarProgress ==
    /\ thread.pc = "progress"
    /\ ESTADOS' = <<[ESTADOS[1] EXCEPT !.progress = <<1, 1>>]>>
    /\ thread' = [thread EXCEPT !.pc = "id_execucao_final"]
    /\ UNCHANGED <<varsEntrada, varsSolver, np_random, instancias, chegadas, leitor>>

\* estado['id_execucao_final'] = id_execucao
MarcarIdExecucao ==
    /\ thread.pc = "id_execucao_final"
    /\ ESTADOS' = <<[ESTADOS[1] EXCEPT !.id_execucao_final = thread.id_execucao]>>
    /\ thread' = [thread EXCEPT !.pc = "melhor_objetivo"]
    /\ UNCHANGED <<varsEntrada, varsSolver, np_random, instancias, chegadas, leitor>>

\* estado['melhor_objetivo'] = valor_objetivo when it is not None
MarcarMelhorObjetivo ==
    /\ thread.pc = "melhor_objetivo"
    /\ ESTADOS' = <<[ESTADOS[1] EXCEPT
                        !.melhor_objetivo =
                            IF thread.valor_objetivo # None THEN thread.valor_objetivo
                            ELSE @]>>
    /\ thread' = [thread EXCEPT !.pc = "fim"]
    /\ UNCHANGED <<varsEntrada, varsSolver, np_random, instancias, chegadas, leitor>>

\* except Exception: estado['status'] = 'error'
MarcarError ==
    /\ thread.pc = "except"
    /\ ESTADOS' = <<[ESTADOS[1] EXCEPT !.status = "error"]>>
    /\ thread' = [thread EXCEPT !.pc = "erro"]
    /\ UNCHANGED <<varsEntrada, varsSolver, np_random, instancias, chegadas, leitor>>

\* estado['erro'] = str(e)
MarcarErro ==
    /\ thread.pc = "erro"
    /\ ESTADOS' = <<[ESTADOS[1] EXCEPT !.erro = thread.erro]>>
    /\ thread' = [thread EXCEPT !.pc = "fim"]
    /\ UNCHANGED <<varsEntrada, varsSolver, np_random, instancias, chegadas, leitor>>

\* records a caller other than the solver may pass
MetricasExternas ==
    [geracao : {None, Some(1)}, iteracao : {None}, melhor_global : {None, Some(MaxObjetivo)},
     melhor_geracao : {None}]

\* _callback_iteracao called for the job at any moment
ChamadaExterna ==
    /\ Cardinality({k \in DOMAIN chegadas : chegadas[k].de = "fora"}) < MaxChegadas
    /\ \E metrica \in MetricasExternas :
        ESTADOS' = CallbackIteracao(ESTADOS, metrica)
    /\ chegadas' = Append(chegadas, Chegada("fora"))
    /\ UNCHANGED <<varsEntrada, varsSolver, np_random, instancias, thread, leitor>>

\* /progresso: obter_estado hands out the dictionary itself, which is then
\* read field by field in the order of its keys
ObterEstado ==
    /\ leitor.pc \in {"ocioso", "leu"}
    /\ ESTADOS # <<>>
    /\ leitor' = [LeitorOcioso EXCEPT !.pc = "status"]
    /\ UNCHANGED <<varsEntrada, varsSolver, np_random, instancias, ESTADOS, thread, chegadas>>

LerStatus ==
    /\ leitor.pc = "status"
    /\ leitor' = [leitor EXCEPT !.status = ESTADOS[1].status, !.pc = "progress"]
    /\ UNCHANGED <<varsEntrada, varsSolver, np_random, instancias, ESTADOS, thread, chegadas>>

LerProgress ==
    /\ leitor.pc = "progress"
    /\ leitor' = [leitor EXCEPT !.progress = Some(ESTADOS[1].progress),
                                !.pc = "id_execucao_final"]
    /\ UNCHANGED <<varsEntrada, varsSolver, np_random, instancias, ESTADOS, thread, chegadas>>

LerIdExecucao ==
    /\ leitor.pc = "id_execucao_final"
    /\ leitor' = [leitor EXCEPT !.id_execucao_final = ESTADOS[1].id_execucao_final,
                                !.pc = "leu"]
    /\ UNCHANGED <<varsEntrada, varsSolver, np_random, instancias, ESTADOS, thread, chegadas>>

-----------------------------------------------------------------------------
(* Inputs *)

AlocacoesPossiveis == [professor : Profs, disciplina : Discs]

Capacidades == [Profs -> 0..MaxCap]

\* the second course of the table is the service course
TiposBase == [d \in Discs |-> IF d = 2 THEN "SERVICO" ELSE "OBRIGATORIA"]

\* the survey in which every professor answers every course: level 3 on the
\* course of the same rank, then 0 and 1 in turn
NivelCenario(p, d) ==
    LET r == (d - p) % 3
    IN  IF r = 0 THEN 3 ELSE IF r = 1 THEN 0 ELSE 1

PesquisaCenario == {<<p, d, NivelCenario(p, d)>> : p \in Profs, d \in Discs}

\* raw conflict tables with at most one marked cell above the diagonal
ConflitosBrutosACO ==
    {{}} \cup {{par} : par \in {q \in Discs \X Discs : q[1] < q[2]}}

DadosBrutosBase ==
    [max_disciplinas : Capacidades,
     tipo_disciplina : {TiposBase},
     preferencias : {PesquisaCenario},
     conflitos : ConflitosBrutosACO]

ConfigsACO ==
    [ALOCACOES_FIXAS : SeqsAte(AlocacoesPossiveis, 1),
     PREFERENCIA_SERVICO : {3},
     PREFERENCIA_DEMAIS : {0},
     solver : {"ACO"},
     callback_iteracao : {FALSE},
     n_formigas : {MaxFormigas},
     n_geracoes : {MaxGeracoes},
     taxa_evaporacao : {<<1, 2>>, <<1, 1>>}]

InitCom(configs, brutos) ==
    /\ config \in configs
    /\ dados_brutos \in brutos
    /\ pc = "preparar_dados"
    /\ prep = PrepInicial
    /\ solucao_parcial_fixa = None
    /\ preferencias_completas = None
    /\ dados_preparados = None
    /\ arr_feromonio = <<>>
    /\ melhor_qualidade_global = -1
    /\ melhor_solucao_global = None
    /\ metricas_iteracao = <<>>
    /\ geracao = 0
    /\ n_formiga = 0
    /\ solucoes_da_geracao = <<>>
    /\ formiga = FormigaOciosa
    /\ deposito = None
    /\ populacao = <<>>
    /\ melhor_fitness_global = None
    /\ estagnacao = [stagnation_count |-> 0, prev_best |-> None]
    /\ nova_pop = <<>>
    /\ semente = SementeOciosa
    /\ filhos = <<>>
    /\ mut = MutOciosa
    /\ chamadas = <<>>
    /\ resultado = None
    /\ np_random = GeradorSemSemente
    /\ instancias = [i \in Instancias |-> InstanciaAusente]
    /\ ESTADOS = <<>>
    /\ thread = ThreadAusente
    /\ chegadas = <<>>
    /\ leitor = LeitorOcioso

InitACO == InitCom(ConfigsACO, DadosBrutosBase)

NextACO ==
    \/ ValidarAlocacaoFixa
    \/ ReduzirProblema
    \/ IniciarResolucao
    \/ IniciarFormiga
    \/ PassoFormiga
    \/ RegistrarFormiga
    \/ FimGeracao
    \/ Finalizar

SpecACO == InitACO /\ [][NextACO]_vars

\* the whole pipeline: any list of fixed entries, either solver, short runs
ConfigsPipelineACO ==
    [ALOCACOES_FIXAS : SeqsAte(AlocacoesPossiveis, MaxFixas),
     PREFERENCIA_SERVICO : {3},
     PREFERENCIA_DEMAIS : {0},
     solver : {"ACO"},
     callback_iteracao : {FALSE},
     n_formigas : {1},
     n_geracoes : {MaxGeracoes},
     taxa_evaporacao : {<<1, 2>>}]

ConfigsPipelineAGFast ==
    [ALOCACOES_FIXAS : SeqsAte(AlocacoesPossiveis, MaxFixas),
     PREFERENCIA_SERVICO : {3},
     PREFERENCIA_DEMAIS : {0},
     solver : {"AGFast"},
     callback_iteracao : {FALSE},
     n_populacao : {MaxPopulacao},
     n_geracoes : {MaxGeracoes},
     tamanho_torneio : {2},
     tamanho_elite : {1},
     fator_penalidade : {1000},
     stagnation_limit : {None}]

Init == InitCom(ConfigsPipelineACO \cup ConfigsPipelineAGFast, DadosBrutosBase)

NextAGFast ==
    \/ IniciarAGFast
    \/ IniciarIndividuo
    \/ SemearGene
    \/ AvaliarGeracao
    \/ Reproduzir
    \/ IniciarMutacao
    \/ MutarGene
    \/ ConcluirMutacao
    \/ FimGeracaoAGFast
    \/ FinalizarAGFast

Next == NextACO \/ NextAGFast

Spec == Init /\ [][Next]_vars

\* the construction alone, on sparse surveys: every course type, every survey
\* of at most MaxRespostas answers with one answer per (professor, course),
\* and several values of the two defaults
TiposPossiveis == [Discs -> {"SERVICO", "OBRIGATORIA"}]

Celulas == Profs \X Discs

PesquisasEsparsas ==
    UNION {{{<<c[1], c[2], nivel[c]>> : c \in S} : nivel \in [S -> 0..3]} :
            S \in {T \in SUBSET Celulas : Cardinality(T) \in 1..MaxRespostas}}

DadosBrutosPrefs ==
    [max_disciplinas : {[p \in Profs |-> MaxCap]},
     tipo_disciplina : TiposPossiveis,
     preferencias : PesquisasEsparsas,
     conflitos : {{}}]

ConfigsPrefs ==
    [ALOCACOES_FIXAS : SeqsAte(AlocacoesPossiveis, 1),
     PREFERENCIA_SERVICO : {2, 3},
     PREFERENCIA_DEMAIS : {0, 1},
     solver : {"ACO"},
     callback_iteracao : {FALSE},
     n_formigas : {MaxFormigas},
     n_geracoes : {MaxGeracoes},
     taxa_evaporacao : {<<1, 2>>}]

InitPrefs == InitCom(ConfigsPrefs, DadosBrutosPrefs)

NextPrefs ==
    \/ ValidarAlocacaoFixa
    \/ ReduzirProblema

SpecPrefs == InitPrefs /\ [][NextPrefs]_vars

\* short runs of the ant colony, down to no ant and no generation at all
ConfigsACOCurto ==
    [ALOCACOES_FIXAS : SeqsAte(AlocacoesPossiveis, 1),
     PREFERENCIA_SERVICO : {3},
     PREFERENCIA_DEMAIS : {0},
     solver : {"ACO"},
     callback_iteracao : {FALSE},
     n_formigas : 0..1,
     n_geracoes : 0..MaxGeracoes,
     taxa_evaporacao : {<<1, 2>>}]

InitACOCurto == InitCom(ConfigsACOCurto, DadosBrutosBase)

SpecACOCurto == InitACOCurto /\ [][NextACO]_vars

\* the two genetic solvers side by side, the slow one given a callback
ConfigsAG ==
    [ALOCACOES_FIXAS : SeqsAte(AlocacoesPossiveis, 1),
     PREFERENCIA_SERVICO : {3},
     PREFERENCIA_DEMAIS : {0},
     solver : {"AG"},
     callback_iteracao : {TRUE},
     n_populacao : {MaxPopulacao},
     n_geracoes : {MaxGeracoes},
     tamanho_torneio : {2},
     tamanho_elite : 1..MaxPopulacao,
     fator_penalidade : {1000}]

ConfigsAGFast ==
    [ALOCACOES_FIXAS : SeqsAte(AlocacoesPossiveis, 1),
     PREFERENCIA_SERVICO : {3},
     PREFERENCIA_DEMAIS : {0},
     solver : {"AGFast"},
     callback_iteracao : {FALSE},
     n_populacao : {MaxPopulacao},
     n_geracoes : {MaxGeracoes},
     tamanho_torneio : {2},
     tamanho_elite : 1..MaxPopulacao,
     fator_penalidade : {1000},
     stagnation_limit : {None}]

InitGeneticos == InitCom(ConfigsAG \cup ConfigsAGFast, DadosBrutosBase)

NextAG ==
    \/ IniciarAG
    \/ IniciarIndividuoAG
    \/ SemearGeneAG
    \/ AvaliarGeracaoAG
    \/ ReproduzirAG
    \/ IniciarMutacaoAG
    \/ MutarGeneAG
    \/ ConcluirMutacaoAG
    \/ FimGeracaoAG
    \/ FinalizarAG

NextGeneticos == ValidarAlocacaoFixa \/ ReduzirProblema \/ NextAGFast \/ NextAG

SpecGeneticos == InitGeneticos /\ [][NextGeneticos]_vars

\* OtimizadorACOFast with and without a stagnation limit; numpy_2 tells which
\* NumPy runs the program
ConfigsACOFast ==
    [ALOCACOES_FIXAS : SeqsAte(AlocacoesPossiveis, 1),
     PREFERENCIA_SERVICO : {3},
     PREFERENCIA_DEMAIS : {0},
     solver : {"ACOFast"},
     callback_iteracao : {FALSE},
     numpy_2 : BOOLEAN,
     n_formigas : {1},
     n_geracoes : {MaxGeracoesFast},
     taxa_evaporacao : {<<1, 2>>},
     stagnation_limit : {None} \cup {Some(l) : l \in 1..MaxEstagnacao}]

InitACOFast == InitCom(ConfigsACOFast, DadosBrutosBase)

NextACOFast ==
    \/ ValidarAlocacaoFixa
    \/ ReduzirProblema
    \/ IniciarACOFast
    \/ IniciarFormigaFast
    \/ PassoFormigaFast
    \/ RegistrarFormigaFast
    \/ FimGeracaoFast
    \/ FinalizarACOFast

SpecACOFast == InitACOFast /\ [][NextACOFast]_vars

\* the four solvers, each given a callback that may raise in any generation
ConfigsObservador ==
    {[c EXCEPT !.callback_iteracao = TRUE] :
        c \in ConfigsACOCurto \cup ConfigsAGFast \cup ConfigsAG
              \cup {f \in ConfigsACOFast :
                        f.numpy_2 /\ f.stagnation_limit \in {None, Some(1)}}}

InitObservador == InitCom(ConfigsObservador, DadosBrutosBase)

NextObservador == NextACO \/ NextAGFast \/ NextAG \/ NextACOFast

SpecObservador == InitObservador /\ [][NextObservador]_vars

\* the reducer alone on raw conflict tables of any shape: marks on the
\* diagonal, marks on one side only, marks on both sides
ConflitosBrutosQuaisquer ==
    {T \in SUBSET (Discs \X Discs) : Cardinality(T) <= MaxMarcas}

DadosBrutosReducao ==
    [max_disciplinas : Capacidades,
     tipo_disciplina : {TiposBase},
     preferencias : {PesquisaCenario},
     conflitos : ConflitosBrutosQuaisquer]

ConfigsReducao ==
    [ALOCACOES_FIXAS : SeqsAte(AlocacoesPossiveis, MaxFixas),
     PREFERENCIA_SERVICO : {3},
     PREFERENCIA_DEMAIS : {0},
     solver : {"ACO"},
     callback_iteracao : {FALSE},
     n_formigas : {1},
     n_geracoes : {1},
     taxa_evaporacao : {<<1, 2>>}]

InitReducao == InitCom(ConfigsReducao, DadosBrutosReducao)

SpecReducao == InitReducao /\ [][NextPrefs]_vars

\* ant colony runs whose fixed list may cover every course
MaxFixasCobertura == 3

ConfigsCobertura ==
    [ALOCACOES_FIXAS : SeqsAte(AlocacoesPossiveis, MaxFixasCobertura),
     PREFERENCIA_SERVICO : {3},
     PREFERENCIA_DEMAIS : {0},
     solver : {"ACO"},
     callback_iteracao : {FALSE},
     n_formigas : {1},
     n_geracoes : {1},
     taxa_evaporacao : {<<1, 2>>}]

InitCobertura == InitCom(ConfigsCobertura, DadosBrutosBase)

SpecCobertura == InitCobertura /\ [][NextACO]_vars

\* two instances built and run in one process, in any order
ConfigsProcesso ==
    [ALOCACOES_FIXAS : {<<>>},
     PREFERENCIA_SERVICO : {3},
     PREFERENCIA_DEMAIS : {0},
     solver : {"ACO", "AG"},
     callback_iteracao : {TRUE},
     n_formigas : {1},
     n_geracoes : 0..MaxGeracoes]

DadosBrutosProcesso ==
    {d \in DadosBrutosBase : d.conflitos = {} /\ d.max_disciplinas = [p \in Profs |-> MaxCap]}

InitSementes == InitCom({c \in ConfigsProcesso : c.solver = "ACO"}, DadosBrutosProcesso)

NextSementes ==
    \E i \in Instancias :
        \/ ConstruirInstancia(i)
        \/ ResolverInstancia(i)
        \/ SortearInstancia(i)
        \/ ConcluirInstancia(i)

SpecSementes == InitSementes /\ [][NextSementes]_vars

\* one job of either algorithm, its worker, outside callers and a reader
InitTarefas == InitCom(ConfigsProcesso, DadosBrutosProcesso)

NextTarefas ==
    \/ IniciarJob
    \/ FabricarSolver
    \/ GeracaoDoJob
    \/ RetornoDoJob
    \/ SalvarResultado
    \/ MarcarDone
    \/ MarcarProgress
    \/ MarcarIdExecucao
    \/ MarcarMelhorObjetivo
    \/ MarcarError
    \/ MarcarErro
    \/ ChamadaExterna
    \/ ObterEstado
    \/ LerStatus
    \/ LerProgress
    \/ LerIdExecucao

SpecTarefas == InitTarefas /\ [][NextTarefas]_vars

-----------------------------------------------------------------------------
(* Properties *)

Fixas == config.ALOCACOES_FIXAS

Reduzido == dados_preparados # None

\* capacity a professor has left once the fixed entries are counted, and the
\* conflict relation, both read from the input tables
CapacidadeRestante(id) ==
    dados_brutos.max_disciplinas[id]
        - Cardinality({k \in DOMAIN Fixas : Fixas[k].professor = id})

EmConflito(a, b) ==
    a # b /\ (<<a, b>> \in dados_brutos.conflitos \/ <<b, a>> \in dados_brutos.conflitos)

\* the paths the ant colony holds: the one under construction, the feasible
\* ones of the generation and the all-time best
CaminhosViaveis ==
    Range([k \in DOMAIN solucoes_da_geracao |-> solucoes_da_geracao[k][1]])
    \cup (IF formiga.retorno = "viavel" THEN {formiga.solucao_indices} ELSE {})
    \cup (IF config.solver = "ACO" /\ melhor_solucao_global # None
          THEN {melhor_solucao_global[1]} ELSE {})

CustoAcumulado(caminho, p) ==
    Cardinality({k \in DOMAIN caminho : caminho[k][1] = p})

DentroDaCapacidade(caminho) ==
    \A p \in 1..NumProfsRed :
        CustoAcumulado(caminho, p) <= CapacidadeRestante(IdxToProf(p))

\* C1: after every step of an ant's construction, and in every path it returns
\* as feasible, the cost accumulated by each residual professor is at most the
\* capacity the fixed entries left to that professor.
C1_CapacidadeACO ==
    Reduzido =>
        /\ DentroDaCapacidade(formiga.solucao_indices)
        /\ \A caminho \in CaminhosViaveis : DentroDaCapacidade(caminho)

\* a feasible construction in which a professor is full and could not have
\* taken every course
C1_Witness ==
    /\ Reduzido
    /\ formiga.retorno = "viavel"
    /\ \E p \in 1..NumProfsRed :
        /\ CustoAcumulado(formiga.solucao_indices, p) = CapacidadeRestante(IdxToProf(p))
        /\ CapacidadeRestante(IdxToProf(p)) < NumDiscsRed

SemParConflitante(caminho) ==
    \A i, j \in DOMAIN caminho :
        (i # j /\ caminho[i][1] = caminho[j][1])
            => ~EmConflito(IdxToDisc(caminho[i][2]), IdxToDisc(caminho[j][2]))

\* C2: in every path an ant construction returns as feasible, no professor
\* holds two residual courses that conflict, whatever the visiting order.
C2_ConflitoACO ==
    Reduzido => \A caminho \in CaminhosViaveis : SemParConflitante(caminho)

\* a feasible path that holds both courses of a conflicting pair, the one
\* marked second in the raw table having been visited first
C2_Witness ==
    /\ Reduzido
    /\ formiga.retorno = "viavel"
    /\ \E i, j \in DOMAIN formiga.solucao_indices :
        /\ i < j
        /\ <<IdxToDisc(formiga.solucao_indices[j][2]),
             IdxToDisc(formiga.solucao_indices[i][2])>> \in dados_brutos.conflitos

CoberturaCaminho(caminho) ==
    /\ Len(caminho) = NumDiscsRed
    /\ \A d \in 1..NumDiscsRed :
        Cardinality({k \in DOMAIN caminho : caminho[k][2] = d}) = 1
    /\ \A k \in DOMAIN caminho : caminho[k][1] \in 1..NumProfsRed

CoberturaCromossomo(crom) ==
    /\ DOMAIN crom = 1..NumDiscsRed
    /\ \A d \in DOMAIN crom : crom[d] \in 1..NumProfsRed

\* the rows of the returned assignment that come from the solver
LinhasDoSolver ==
    SubSeq(resultado[1].alocacao_final, Len(solucao_parcial_fixa[1]) + 1,
           Len(resultado[1].alocacao_final))

CoberturaLinhas(linhas) ==
    /\ \A d \in Range(DP.disciplinas) :
        Cardinality({k \in DOMAIN linhas : linhas[k].id_disciplina = d}) = 1
    /\ \A k \in DOMAIN linhas :
        /\ linhas[k].id_disciplina \in Range(DP.disciplinas)
        /\ linhas[k].id_docente \in Range(DP.professores)

\* C3: every assignment a solver outputs (each feasible path of an ant, every
\* chromosome of the genetic algorithm and the best one it returns, and the
\* solver's rows of the result) gives every residual course exactly one
\* residual professor: none is missing, doubled or left with the marker -1.
C3_Cobertura ==
    Reduzido =>
        /\ config.solver = "ACO" =>
              \A caminho \in CaminhosViaveis : CoberturaCaminho(caminho)
        /\ config.solver = "AGFast" =>
              /\ \A i \in DOMAIN populacao : CoberturaCromossomo(populacao[i])
              /\ \A i \in DOMAIN nova_pop : CoberturaCromossomo(nova_pop[i])
              /\ melhor_solucao_global # None =>
                    CoberturaCromossomo(melhor_solucao_global[1])
        /\ resultado # None => CoberturaLinhas(LinhasDoSolver)

\* the genetic algorithm returned a best chromosome found in its second
\* generation, that is, one that crossover and mutation produced
C3_Witness ==
    /\ pc = "fim"
    /\ config.solver = "AGFast"
    /\ resultado # None
    /\ NumDiscsRed = NumDiscs
    /\ Len(metricas_iteracao) = 2
    /\ metricas_iteracao[2].melhor_global > metricas_iteracao[1].melhor_global

\* C4: the complete assignment returned by resolver holds every course of the
\* course table exactly once.
C4_CoberturaCompleta ==
    (pc = "fim" /\ resultado # None) =>
        \A d \in Discs :
            Cardinality({k \in DOMAIN resultado[1].alocacao_final :
                            resultado[1].alocacao_final[k].id_disciplina = d}) = 1

\* the fixed entry at position k overloads its professor, counting the entries
\* up to k
Sobrecarrega(k) ==
    Cardinality({j \in 1..k : Fixas[j].professor = Fixas[k].professor})
        > dados_brutos.max_disciplinas[Fixas[k].professor]

\* C5: when some fixed entry, taken in order, puts its professor above the
\* capacity, the constructor never gets past that entry: it ends in ValueError
\* with no accepted fixed list, no reduced problem, no generation and no result.
C5_RejeicaoFixa ==
    (\E k \in DOMAIN Fixas : Sobrecarrega(k)) =>
        /\ pc \in {"preparar_dados", "ValueError"}
        /\ \A k \in DOMAIN Fixas : Sobrecarrega(k) => prep.i <= k
        /\ solucao_parcial_fixa = None
        /\ dados_preparados = None
        /\ preferencias_completas = None
        /\ geracao = 0
        /\ metricas_iteracao = <<>>
        /\ populacao = <<>>
        /\ resultado = None

\* the constructor failed on the second entry after having taken the first
C5_Witness ==
    /\ pc = "ValueError"
    /\ prep.i = 2
    /\ Len(prep.alocacoes_resolvidas) = 1
    /\ dados_preparados = None

\* the survey rows of a professor, and the default of a course by its type
RespostasDe(p) == {r \in dados_brutos.preferencias : r[1] = p}

PadraoPorTipo(d) ==
    IF dados_brutos.tipo_disciplina[d] = "SERVICO"
    THEN config.PREFERENCIA_SERVICO
    ELSE config.PREFERENCIA_DEMAIS

\* C6: in the preference matrix an answered pair keeps the answered level; a
\* professor without any answer gets the service default on service courses
\* and the non-response default elsewhere; a professor with some answer gets
\* the non-response default on every course left unanswered, service or not.
C6_PreenchimentoPreferencias ==
    preferencias_completas # None =>
        \A p \in Profs, d \in Discs :
            LET valor == preferencias_completas[1][p][d]
                resposta == {r \in RespostasDe(p) : r[2] = d}
            IN  IF resposta # {}
                THEN \E r \in resposta : valor = r[3]
                ELSE IF RespostasDe(p) = {}
                THEN valor = PadraoPorTipo(d)
                ELSE valor = config.PREFERENCIA_DEMAIS

\* the state in which every ant of the generation has run and the pheromone
\* update is next
FimDasFormigas == pc = "formigas" /\ n_formiga = config.n_formigas

\* a cell of the pheromone matrix once multiplied by (1 - rho)
CelulaEvaporada(i, j) ==
    FMul(arr_feromonio[i][j], FSub(<<1, 1>>, config.taxa_evaporacao))

CelulasFeromonio ==
    {c \in (1..NumProfsRed) \X (1..NumDiscsRed) : TRUE}

\* C7: at the end of every generation each pheromone cell is multiplied by
\* (1 - rho) once, before the deposit: a generation without feasible ant ends
\* with every cell at (1 - rho) times its previous value, and otherwise a cell
\* ends at that value or at that value plus the deposit.
C7_EvaporacaoPorGeracao ==
    [][FimDasFormigas =>
          \A c \in CelulasFeromonio :
              IF solucoes_da_geracao = <<>>
              THEN arr_feromonio'[c[1]][c[2]] = CelulaEvaporada(c[1], c[2])
              ELSE \/ arr_feromonio'[c[1]][c[2]] = CelulaEvaporada(c[1], c[2])
                   \/ arr_feromonio'[c[1]][c[2]] =
                          FAdd(CelulaEvaporada(c[1], c[2]), deposito'[1])]_vars

\* the feasible ants of the generation whose quality no other ant exceeds
MelhoresDaGeracao ==
    {k \in DOMAIN solucoes_da_geracao :
        \A j \in DOMAIN solucoes_da_geracao :
            solucoes_da_geracao[j][2] <= solucoes_da_geracao[k][2]}

\* C8: the deposit of a generation adds the amount to exactly the cells of the
\* generation's best feasible ant, one per residual course, and every other
\* cell is left at its evaporated value.
C8_DepositoNoMelhorDaGeracao ==
    [][(FimDasFormigas /\ solucoes_da_geracao # <<>>) =>
          \E k \in MelhoresDaGeracao :
              LET caminho == solucoes_da_geracao[k][1]
              IN  /\ \A d \in 1..NumDiscsRed :
                        Cardinality({n \in DOMAIN caminho : caminho[n][2] = d}) = 1
                  /\ Len(caminho) = NumDiscsRed
                  /\ \A c \in CelulasFeromonio :
                        arr_feromonio'[c[1]][c[2]] =
                            IF c \in Range(caminho)
                            THEN FAdd(CelulaEvaporada(c[1], c[2]), deposito'[1])
                            ELSE CelulaEvaporada(c[1], c[2])]_vars

\* the second generation deposited with its best ant below the all-time best
\* of the first generation and above another ant of the same generation
C8_Witness ==
    /\ Len(metricas_iteracao) = 2
    /\ metricas_iteracao[2].melhor_geracao # None
    /\ metricas_iteracao[2].melhor_geracao[1] < metricas_iteracao[1].melhor_global
    /\ metricas_iteracao[2].media_geracao # FInt(metricas_iteracao[2].melhor_geracao[1])
    /\ deposito # None
    /\ \E c \in CelulasFeromonio, e \in CelulasFeromonio :
          arr_feromonio[c[1]][c[2]] # arr_feromonio[e[1]][e[2]]

\* C9: a deposit uses the amount 1 when the all-time best quality is at most 0
\* and the amount 1 / (1 + (all-time best - generation best)) otherwise; the
\* amount is the one added to the cells.
C9_ValorDoDeposito ==
    [][(FimDasFormigas /\ solucoes_da_geracao # <<>>) =>
          \E k \in MelhoresDaGeracao :
              LET melhor_da_geracao == solucoes_da_geracao[k][2]
                  valor == deposito'[1]
              IN  /\ deposito' # None
                  /\ melhor_qualidade_global <= 0 => valor = <<1, 1>>
                  /\ melhor_qualidade_global > 0 =>
                        /\ valor[1] > 0
                        /\ valor[1] * (1 + (melhor_qualidade_global - melhor_da_geracao))
                              = valor[2]
                  /\ \E c \in CelulasFeromonio :
                        arr_feromonio'[c[1]][c[2]] =
                            FAdd(CelulaEvaporada(c[1], c[2]), valor)]_vars

\* a deposit made while the generation's best is below a positive all-time best
C9_Witness ==
    /\ deposito # None
    /\ deposito[1][2] > 1
    /\ metricas_iteracao # <<>>
    /\ metricas_iteracao[Len(metricas_iteracao)].melhor_global > 0
    /\ metricas_iteracao[Len(metricas_iteracao)].melhor_geracao # None
    /\ metricas_iteracao[Len(metricas_iteracao)].melhor_geracao[1]
          < metricas_iteracao[Len(metricas_iteracao)].melhor_global

\* the highest value of a non-empty finite set of integers
MaiorDe(S) == CHOOSE x \in S : \A y \in S : y <= x

\* qualities of the feasible ants registered so far: the bests of the closed
\* generations up to g and, for the current one, the list of the generation
QualidadesAte(g) ==
    {metricas_iteracao[h].melhor_geracao[1] :
        h \in {n \in 1..g : metricas_iteracao[n].melhor_geracao # None}}

QualidadesRegistradas ==
    QualidadesAte(Len(metricas_iteracao))
    \cup {solucoes_da_geracao[k][2] : k \in DOMAIN solucoes_da_geracao}

MelhorGlobalCoerente ==
    /\ melhor_qualidade_global = MaiorDe({-1} \cup QualidadesRegistradas)
    /\ \A g \in DOMAIN metricas_iteracao :
          /\ metricas_iteracao[g].melhor_global = MaiorDe({-1} \cup QualidadesAte(g))
          /\ g > 1 => metricas_iteracao[g].melhor_global
                          >= metricas_iteracao[g - 1].melhor_global

MelhorGlobalSoMelhora ==
    /\ (\/ melhor_qualidade_global' # melhor_qualidade_global
        \/ melhor_solucao_global' # melhor_solucao_global) =>
            /\ pc = "retornou"
            /\ formiga.retorno = "viavel"
            /\ formiga.qualidade_solucao > melhor_qualidade_global
            /\ melhor_qualidade_global' = formiga.qualidade_solucao
            /\ melhor_solucao_global' = Some(formiga.solucao_indices)
    /\ (pc = "retornou" /\ formiga.retorno = "inviavel") =>
            UNCHANGED <<melhor_qualidade_global, melhor_solucao_global,
                        solucoes_da_geracao>>

\* C10: the all-time best (quality and path) changes only when a feasible ant
\* is strictly better than it; the melhor_global recorded per generation never
\* decreases and is the highest quality of the feasible ants so far, or -1;
\* an infeasible ant changes neither the all-time best nor the list of the
\* generation.
C10_MelhorGlobal == []MelhorGlobalCoerente /\ [][MelhorGlobalSoMelhora]_vars

\* a second feasible ant tied with the all-time best on another path and the
\* all-time best path stayed the first one
C10_Witness ==
    /\ Len(solucoes_da_geracao) = 2
    /\ solucoes_da_geracao[1][2] = melhor_qualidade_global
    /\ solucoes_da_geracao[2][2] = melhor_qualidade_global
    /\ solucoes_da_geracao[1][1] # solucoes_da_geracao[2][1]
    /\ melhor_solucao_global = Some(solucoes_da_geracao[1][1])
    /\ geracao = 0

\* no ant registered so far was feasible
NenhumaFormigaViavel ==
    /\ solucoes_da_geracao = <<>>
    /\ \A g \in DOMAIN metricas_iteracao : metricas_iteracao[g].melhor_geracao = None

\* C11: a run of the ant colony in which no ant was ever feasible, the runs
\* with no ant or no generation included, raises nothing and ends with the
\* empty result None: no assignment is returned.
C11_SemSolucao ==
    (config.solver = "ACO" /\ NenhumaFormigaViavel) =>
        /\ pc # "excecao"
        /\ melhor_solucao_global = None
        /\ pc = "fim" => resultado = None

\* every generation ran its ant, none was feasible, and the run returned None
C11_Witness ==
    /\ pc = "fim"
    /\ resultado = None
    /\ config.n_formigas = 1
    /\ Len(metricas_iteracao) = MaxGeracoes
    /\ NenhumaFormigaViavel

\* the fitness formula applied to rows of an assignment, from the input
\* tables: preference sum, capacity excess and conflict count of the rows
SomaPreferenciasLinhas(linhas) ==
    SumSeq([k \in DOMAIN linhas |->
        preferencias_completas[1][linhas[k].id_docente][linhas[k].id_disciplina]])

ExcessoLinhas(linhas) ==
    SumSeq([p \in Profs |->
        LET carga == Cardinality({k \in DOMAIN linhas : linhas[k].id_docente = p})
        IN  IF carga > CapacidadeRestante(p) THEN carga - CapacidadeRestante(p) ELSE 0])

ConflitosLinhas(linhas) ==
    Cardinality({par \in (DOMAIN linhas) \X (DOMAIN linhas) :
        /\ linhas[par[1]].id_disciplina < linhas[par[2]].id_disciplina
        /\ linhas[par[1]].id_docente = linhas[par[2]].id_docente
        /\ EmConflito(linhas[par[1]].id_disciplina, linhas[par[2]].id_disciplina)})

\* C12: at the end of a run of the genetic algorithm the returned
\* valor_objetivo equals preference sum - penalty * capacity excess
\* - penalty * conflict count recomputed from the returned best chromosome.
C12_FitnessRecalculado ==
    (pc = "fim" /\ config.solver = "AGFast" /\ resultado # None) =>
        resultado[1].valor_objetivo =
            SomaPreferenciasLinhas(LinhasDoSolver)
                - config.fator_penalidade * ExcessoLinhas(LinhasDoSolver)
                - config.fator_penalidade * ConflitosLinhas(LinhasDoSolver)

\* a returned best chromosome that carries a capacity excess on a professor
\* holding less than every residual course
C12_Witness ==
    /\ pc = "fim"
    /\ config.solver = "AGFast"
    /\ resultado # None
    /\ ExcessoLinhas(LinhasDoSolver) > 0
    /\ \E k \in DOMAIN LinhasDoSolver :
          LinhasDoSolver[k].id_docente # LinhasDoSolver[1].id_docente
    /\ SomaPreferenciasLinhas(LinhasDoSolver) > 0

\* C13: the valor_objetivo returned by resolver equals the sum of the
\* preference values of all the rows of the returned alocacao_final.
C13_ValorObjetivo ==
    (pc = "fim" /\ resultado # None) =>
        resultado[1].valor_objetivo =
            SumSeq([k \in DOMAIN resultado[1].alocacao_final |->
                        resultado[1].alocacao_final[k].preferencia])

\* professor p can take the gene g of the chromosome crom: the courses p holds
\* apart from g leave room for one more and none of them conflicts with g
ProfessorValidoParaGene(crom, g, p) ==
    /\ Cardinality({c \in DOMAIN crom : c # g /\ crom[c] = p}) + 1
          <= CapacidadeRestante(IdxToProf(p))
    /\ \A c \in DOMAIN crom :
          (c # g /\ crom[c] = p) => ~EmConflito(IdxToDisc(c), IdxToDisc(g))

\* C15: in the repair mutation, when shift and swap both failed for a gene and
\* the fallback finds no professor satisfying capacity and conflict for the
\* course, the gene keeps the professor it had.
C15_FallbackSemCandidato ==
    [][(/\ pc = "mutando"
        /\ mut.g <= NumDiscsRed
        /\ mut'.g = mut.g + 1
        /\ mut'.caminho = "fallback"
        /\ \A p \in 1..NumProfsRed : ~ProfessorValidoParaGene(mut.crom, mut.g, p))
          => mut'.crom[mut.g] = mut.crom[mut.g]]_vars

\* the generation of a genetic solver ends with this step
FimDeGeracaoGenetica ==
    /\ pc \in {"reproduzir", "ag_reproduzir"}
    /\ geracao' = geracao + 1

\* a choice of the best individuals of the population, one place in the next
\* population for each, the genes unchanged
ElitePreservada ==
    LET f == FitnessPopulacao(populacao)
        n == IF config.tamanho_elite < Len(populacao)
             THEN config.tamanho_elite ELSE Len(populacao)
    IN  \E E \in SUBSET DOMAIN populacao :
          /\ Cardinality(E) = n
          /\ \A i \in E : \A j \in DOMAIN populacao \ E : f[j] <= f[i]
          /\ \E h \in [E -> DOMAIN populacao'] :
               /\ \A i, j \in E : i # j => h[i] # h[j]
               /\ \A i \in E : populacao'[h[i]] = populacao[i]

MelhorDaGeracaoNaoCai ==
    \A g \in DOMAIN metricas_iteracao :
        g > 1 => metricas_iteracao[g].melhor_geracao
                    >= metricas_iteracao[g - 1].melhor_geracao

\* C14: with tamanho_elite >= 1 the tamanho_elite fittest individuals of a
\* generation are in the next population with the same genes, in both genetic
\* solvers, and the best fitness of a generation is never below the best
\* fitness of the generation before
C14_Elitismo ==
    /\ [](config.solver \in {"AG", "AGFast"} => MelhorDaGeracaoNaoCai)
    /\ [][(FimDeGeracaoGenetica /\ config.tamanho_elite >= 1) =>
            /\ ElitePreservada
            /\ MaxSeq(FitnessPopulacao(populacao')) >= MaxSeq(FitnessPopulacao(populacao))]_vars

\* the second generation starts with the elite of the first in front of an
\* offspring of lower fitness
C14_Witness ==
    /\ pc \in {"avaliar", "ag_avaliar"}
    /\ geracao = 1
    /\ config.tamanho_elite = 1
    /\ Fitness(populacao[1]) = metricas_iteracao[1].melhor_geracao
    /\ Fitness(populacao[2]) < Fitness(populacao[1])

\* the course being seeded and the professor the step gives it
DisciplinaSemeada == semente.ordem[semente.k]

ProfessorSemeado ==
    IF semente.k = NumDiscsRed
    THEN populacao'[Len(populacao')][DisciplinaSemeada]
    ELSE semente'.sol[DisciplinaSemeada]

\* the professor holds, in the individual under construction, a course that
\* conflicts with d
TemConflitoNaSemente(p, d) ==
    \E c \in TodasDiscs : semente.sol[c] = p /\ Conflicts(c, d) = 1

CabeNaSemente(p, d) == semente.cargas[p] + ChDisciplina(d) <= ChMax(p)

\* C16: while OtimizadorAG seeds an individual, a professor who already holds
\* a course in conflict with the course being placed is not chosen, as long
\* as some professor passes both the capacity and the conflict filter
C16_FiltroDeConflitoAG ==
    [][(/\ pc = "ag_semeando_gene"
        /\ \E p \in TodosProfs :
             CabeNaSemente(p, DisciplinaSemeada)
             /\ ~TemConflitoNaSemente(p, DisciplinaSemeada))
       => ~TemConflitoNaSemente(ProfessorSemeado, DisciplinaSemeada)]_vars

\* the seeding step of either genetic solver that gives the course to p
SemeaduraEscolhe(p) == (SemearGene \/ SemearGeneAG) /\ ProfessorSemeado = p

\* C17: in the seeding of the initial population every professor of the
\* candidate set, the ones with room and without a conflicting course, can be
\* the one drawn, whatever the preferences are: a candidate of preference 0 is
\* still drawn when another candidate has a positive preference
C17_PesosDaSemeadura ==
    pc \in {"semeando_gene", "ag_semeando_gene"} =>
        \A p \in TodosProfs :
            (CabeNaSemente(p, DisciplinaSemeada)
             /\ ~TemConflitoNaSemente(p, DisciplinaSemeada))
            => ENABLED SemeaduraEscolhe(p)

\* the all-time best before generation g, -1 before the first
MelhorGlobalAntes(g) ==
    IF g = 1 THEN -1 ELSE metricas_iteracao[g - 1].melhor_global

\* generation g brought no strict improvement of the all-time best
SemMelhoraNa(g) == metricas_iteracao[g].melhor_global <= MelhorGlobalAntes(g)

\* number of consecutive generations without improvement that end with g
RECURSIVE GeracoesSemMelhora(_)
GeracoesSemMelhora(g) ==
    IF g = 0 \/ ~SemMelhoraNa(g) THEN 0 ELSE 1 + GeracoesSemMelhora(g - 1)

\* C18: in OtimizadorACOFast the stagnation counter recorded at the end of a
\* generation is the number of consecutive generations up to that one without
\* strict improvement of the all-time best, a generation without feasible ant
\* included, and with stagnation_limit = L no generation is run after one
\* whose counter reached L
C18_Estagnacao ==
    config.solver = "ACOFast" =>
        \A g \in DOMAIN metricas_iteracao :
            /\ metricas_iteracao[g].stagnation_count = GeracoesSemMelhora(g)
            /\ (/\ config.stagnation_limit # None
                /\ GeracoesSemMelhora(g) >= config.stagnation_limit[1])
               => /\ Len(metricas_iteracao) = g
                  /\ pc \in {"fast_formatar", "fim"}

\* the calls made so far are the metrics records appended so far, in order
UmaChamadaPorGeracao ==
    /\ Len(chamadas) = Len(metricas_iteracao)
    /\ \A g \in DOMAIN chamadas :
         /\ chamadas[g].metrica = metricas_iteracao[g]
         /\ chamadas[g].metrica.geracao = g

\* a call is made by the step that completes a generation
ChamadaSoNoFimDaGeracao ==
    chamadas' # chamadas =>
        /\ geracao' = geracao + 1
        /\ Len(chamadas') = Len(chamadas) + 1

\* C19: a solver given a callback (OtimizadorACO, OtimizadorAG,
\* OtimizadorAGFast) calls it once for every completed generation, in the
\* order of the generations, with the metrics record of that generation, and
\* only when a generation completes
C19_CallbackPorGeracao ==
    /\ []((config.callback_iteracao /\ config.solver \in {"ACO", "AG", "AGFast"})
            => UmaChamadaPorGeracao)
    /\ [][ChamadaSoNoFimDaGeracao]_vars

\* the callback of the last call raised
ChamadaComExcecao ==
    /\ Len(chamadas') = Len(chamadas) + 1
    /\ chamadas'[Len(chamadas')].levantou

\* C20: when the callback raises, the exception stays inside the solver
\* (OtimizadorACO, OtimizadorAGFast, OtimizadorACOFast) and the step leaves
\* pheromone, population, all-time best, metrics and the place in the loop
\* as the step of a callback that returns leaves them
C20_ExcecaoDoCallback ==
    [][ChamadaComExcecao =>
          /\ pc' # "excecao"
          /\ \/ FimGeracaoCom(FALSE)
             \/ FimGeracaoAGFastCom(FALSE)
             \/ FimGeracaoFastCom(FALSE)]_vars

\* a run whose callback raised in every generation ended with a result
C20_Witness ==
    /\ pc = "fim"
    /\ resultado # None
    /\ Len(chamadas) = MaxGeracoes
    /\ \A g \in DOMAIN chamadas : chamadas[g].levantou

\* fixed load of a professor: one unit of cost for every entry of the fixed
\* list that names the professor
CargaFixaDe(p) ==
    Cardinality({k \in DOMAIN Fixas : Fixas[k].professor = p})

DisciplinasSemFixacao ==
    {d \in Discs : \A k \in DOMAIN Fixas : Fixas[k].disciplina # d}

ProfessoresComVaga ==
    {p \in Profs : dados_brutos.max_disciplinas[p] - CargaFixaDe(p) > 0}

\* C22: once the fixed list is accepted, the residual courses are the courses
\* no fixed entry names, the residual professors are the ones whose capacity
\* minus fixed load is above zero, and the capacity a residual professor has
\* left is the original capacity minus the cost of the entries fixed to that
\* professor
C22_ProblemaResidual ==
    Reduzido =>
        /\ Range(DP.disciplinas) = DisciplinasSemFixacao
        /\ Len(DP.disciplinas) = Cardinality(DisciplinasSemFixacao)
        /\ Range(DP.professores) = ProfessoresComVaga
        /\ Len(DP.professores) = Cardinality(ProfessoresComVaga)
        /\ DOMAIN DP.ch_max = ProfessoresComVaga
        /\ \A p \in ProfessoresComVaga :
             DP.ch_max[p] = dados_brutos.max_disciplinas[p] - CargaFixaDe(p)

\* two entries fixed: one professor used up and removed, the other kept with
\* one unit less
C22_Witness ==
    /\ Reduzido
    /\ Len(Fixas) = 2
    /\ \E p \in Profs : p \notin ProfessoresComVaga /\ CargaFixaDe(p) = 1
    /\ \E p \in ProfessoresComVaga :
         CargaFixaDe(p) = 1 /\ DP.ch_max[p] = 1
    /\ Cardinality(DisciplinasSemFixacao) = 1

\* the raw table marks the pair on either side
MarcadoNoBruto(a, b) ==
    <<a, b>> \in dados_brutos.conflitos \/ <<b, a>> \in dados_brutos.conflitos

\* C23: whatever the raw conflict table is, marks on one side only and marks
\* on the diagonal included, the conflict relation handed to the solvers is
\* symmetric, false on the diagonal, and true for two different courses
\* exactly when the raw table marks the pair on either side; the table is
\* never the reason of a rejection
C23_ConflitosNormalizados ==
    /\ pc = "ValueError" =>
          /\ prep.i <= Len(Fixas)
          /\ prep.cargas_atuais[Fixas[prep.i].professor] + 1
                > dados_brutos.max_disciplinas[Fixas[prep.i].professor]
    /\ Reduzido =>
          \A a, b \in Range(DP.disciplinas) :
             /\ DP.matriz_conflitos[a][b] \in {0, 1}
             /\ DP.matriz_conflitos[a][b] = DP.matriz_conflitos[b][a]
             /\ DP.matriz_conflitos[a][a] = 0
             /\ a # b => (DP.matriz_conflitos[a][b] = 1 <=> MarcadoNoBruto(a, b))

\* a raw table with a mark on the diagonal and a mark on one side only
C23_Witness ==
    /\ Reduzido
    /\ Fixas = <<>>
    /\ dados_brutos.conflitos = {<<1, 1>>, <<3, 2>>}
    /\ DP.matriz_conflitos[2][3] = 1
    /\ DP.matriz_conflitos[1][1] = 0

\* an assignment of OtimizadorACOFast, one professor per course, as the list
\* of cells OtimizadorACO works with
CaminhoDe(sol) == [d \in DOMAIN sol |-> <<sol[d], d>>]

SolucoesComoCaminhos(solucoes) ==
    [i \in DOMAIN solucoes |-> <<CaminhoDe(solucoes[i][1]), solucoes[i][2]>>]

\* C24: at the end of every generation OtimizadorACOFast leaves the pheromone
\* matrix OtimizadorACO leaves for the same ants: evaporation, then
\* 1 / (1 + (all-time best - generation best)) on the cells of the best
\* feasible ant of the generation (generations with a feasible ant)
C24_FeromonioEquivalente ==
    [][(pc = "fast_formigas" /\ geracao' = geracao + 1
           /\ solucoes_da_geracao # <<>>) =>
          arr_feromonio' =
              AtualizarFeromonio(arr_feromonio,
                                 SolucoesComoCaminhos(solucoes_da_geracao),
                                 melhor_qualidade_global,
                                 config.taxa_evaporacao)]_vars

\* no professor holds two courses of the rows that conflict in the raw table
LinhasSemConflito(linhas) ==
    \A i, j \in DOMAIN linhas :
        (i # j /\ linhas[i].id_docente = linhas[j].id_docente)
            => ~EmConflito(linhas[i].id_disciplina, linhas[j].id_disciplina)

FixasSemConflito ==
    \A i, j \in DOMAIN Fixas :
        (i # j /\ Fixas[i].professor = Fixas[j].professor)
            => ~EmConflito(Fixas[i].disciplina, Fixas[j].disciplina)

\* C26: when the fixed list itself holds no conflicting pair for a professor,
\* the complete assignment the ant colony run returns (fixed rows plus the
\* solver's rows) holds none either; in particular no residual course is given
\* to a professor who holds a fixed course conflicting with it.
C26_ConflitoNaAlocacaoCompleta ==
    (pc = "fim" /\ config.solver = "ACO" /\ resultado # None /\ FixasSemConflito)
        => LinhasSemConflito(resultado[1].alocacao_final)

LinhasDe(linhas, p) == {k \in DOMAIN linhas : linhas[k].id_docente = p}

\* C27: in the complete assignment the ant colony run returns, the courses a
\* professor holds (fixed rows plus the solver's rows) are at most the
\* professor's original max_disciplinas, and a professor whose capacity the
\* fixed entries use up holds no row of the solver.
C27_CapacidadeNaAlocacaoCompleta ==
    (pc = "fim" /\ config.solver = "ACO" /\ resultado # None) =>
        \A p \in Profs :
            /\ Cardinality(LinhasDe(resultado[1].alocacao_final, p))
                  <= dados_brutos.max_disciplinas[p]
            /\ CapacidadeRestante(p) = 0 => LinhasDe(LinhasDoSolver, p) = {}

\* a returned assignment in which one professor is used up by a fixed entry
\* and the other is filled to the limit by a fixed row and a row of the solver
C27_Witness ==
    /\ pc = "fim"
    /\ config.solver = "ACO"
    /\ resultado # None
    /\ \E p, q \in Profs :
        /\ Fixas # <<>>
        /\ CapacidadeRestante(p) = 0
        /\ \E k \in DOMAIN Fixas : Fixas[k].professor = p
        /\ \E k \in DOMAIN Fixas : Fixas[k].professor = q
        /\ LinhasDe(LinhasDoSolver, q) # {}
        /\ Cardinality(LinhasDe(resultado[1].alocacao_final, q))
              = dados_brutos.max_disciplinas[q]

TodasFixadas == \A d \in Discs : \E k \in DOMAIN Fixas : Fixas[k].disciplina = d

\* C28: when an accepted fixed list covers every course, resolver with the ant
\* colony (at least one ant and one generation) raises no exception and
\* returns the validated fixed list as the complete assignment.
C28_TudoFixado ==
    (Reduzido /\ config.solver = "ACO" /\ TodasFixadas
        /\ config.n_formigas >= 1 /\ config.n_geracoes >= 1) =>
        /\ pc # "excecao"
        /\ pc = "fim" =>
              /\ resultado # None
              /\ resultado[1].alocacao_final = FixoEnriquecido

\* a chromosome that exceeds no capacity and gives no professor two
\* conflicting courses
CromossomoViavel(crom) == Excesso(crom) = 0 /\ NumConflitos(crom) = 0

PassoDeMutacao ==
    /\ pc \in {"mutando", "ag_mutando"}
    /\ pc' = pc
    /\ mut.g <= NumDiscsRed
    /\ mut'.g = mut.g + 1

\* C25: in both genetic algorithms every gene step of the repair mutation
\* (not drawn, same target, shift, swap, fallback) that starts from a
\* chromosome violating no capacity and no conflict constraint leaves one that
\* violates none, so the chromosome a call returns is feasible whenever the
\* one it received was, however many genes the call changed.
C25_MutacaoPreservaViabilidade ==
    [][(PassoDeMutacao /\ CromossomoViavel(mut.crom))
            => CromossomoViavel(mut'.crom)]_vars

\* the chromosomes a call of _mutacao can receive in the current generation:
\* the members of the population and the offspring of their crossovers
EntradasDaMutacao ==
    Range(populacao)
    \cup UNION {Range(Cruzar(populacao[v1], populacao[v2], ponto)) :
                    v1 \in DOMAIN populacao, v2 \in DOMAIN populacao,
                    ponto \in 1..(NumDiscsRed - 1)}

GenesDiferentes(a, b) == Cardinality({d \in DOMAIN a : a[d] # b[d]})

\* a call has run over every gene, every chromosome it can have received is
\* feasible, and the one it returns differs from each of them in two genes or
\* more: several genes were changed, the last one by a swap
C25_Witness ==
    /\ pc \in {"mutando", "ag_mutando"}
    /\ mut.g > NumDiscsRed
    /\ mut.caminho = "swap"
    /\ CromossomoViavel(mut.crom)
    /\ \A c \in EntradasDaMutacao :
        /\ CromossomoViavel(c)
        /\ GenesDiferentes(c, mut.crom) >= 2

\* the draws an instance built with the seed receives when nothing else
\* touches the generator: the first values of the stream of that seed
SorteiosDaSemente(seed, n) == [k \in 1..n |-> <<seed, k - 1>>]

\* C21: an instance built with a seed receives, whatever other instances are
\* built or run in the process between its construction and the end of its
\* run, the draws of its own seed, hence returns the same assignment and
\* objective: its draws do not depend on state shared with other instances.
C21_SorteiosIndependentes ==
    \A i \in Instancias :
        instancias[i].seed # None =>
            instancias[i].sorteios =
                SorteiosDaSemente(instancias[i].seed, Len(instancias[i].sorteios))

JobCriado == ESTADOS # <<>>

\* the job is created running
NasceRunning == (~JobCriado /\ ESTADOS' # <<>>) => ESTADOS'[1].status = "running"

\* the status only goes from running to done or error
StatusMudaUmaVez ==
    (JobCriado /\ ESTADOS'[1].status # ESTADOS[1].status) =>
        /\ ESTADOS[1].status = "running"
        /\ ESTADOS'[1].status \in {"done", "error"}

\* a call of the callback that finds the job not running changes nothing
CallbackForaDeRunning ==
    (Len(chegadas') > Len(chegadas) /\ JobCriado /\ ESTADOS[1].status # "running") =>
        /\ ESTADOS'[1].iteracao_atual = ESTADOS[1].iteracao_atual
        /\ ESTADOS'[1].progress = ESTADOS[1].progress
        /\ ESTADOS'[1].melhor_objetivo = ESTADOS[1].melhor_objetivo
        /\ ESTADOS'[1].metricas_ultimas = ESTADOS[1].metricas_ultimas

\* a worker that ended on an exception or without a solution left error, one
\* that ended with a saved result left done
DesfechoNoStatus ==
    thread.pc = "fim" =>
        ESTADOS[1].status = IF thread.desfecho = "resultado" THEN "done" ELSE "error"

\* C29: a job starts with status running; the status changes at most once, to
\* done or to error (error when the solver raises or returns no solution), and
\* never again; a callback that arrives while the status is not running leaves
\* iteracao_atual, progress, melhor_objetivo and metricas_ultimas as they were.
C29_CicloDoJob ==
    /\ []DesfechoNoStatus
    /\ [][NasceRunning /\ StatusMudaUmaVez /\ CallbackForaDeRunning]_vars

\* the worker has ended with done after callbacks of the solver were applied,
\* and a later call from outside found the job done
C29_Witness ==
    /\ thread.pc = "fim"
    /\ JobCriado
    /\ ESTADOS[1].status = "done"
    /\ ESTADOS[1].metricas_ultimas # <<>>
    /\ \E k \in DOMAIN chegadas : chegadas[k].de = "resolver" /\ chegadas[k].status = "running"
    /\ \E k \in DOMAIN chegadas : chegadas[k].de = "fora" /\ chegadas[k].status = "done"

\* C30: under every interleaving of the worker with a reader of the job's
\* state, a reader that has seen the status done has also seen progress 1.0
\* and an id_execucao_final that is not None.
C30_LeituraDeDone ==
    (leitor.pc = "leu" /\ leitor.status = "done") =>
        /\ leitor.progress = Some(<<1, 1>>)
        /\ leitor.id_execucao_final # None

====
